---- MODULE Spec2Model ----
(***************************************************************************)
(* A model of the BidMonitor monitoring pipeline: the SQLite record store  *)
(* (src/src/database/storage.py), the keyword matcher                      *)
(* (src/src/matcher/keyword.py), the notification fan-out and the round    *)
(* control of the two hosts (src/server/app.py, src/src/gui.py) and the    *)
(* crawl loop of an adapter (src/src/crawler/base.py,                      *)
(* src/src/crawler/selenium_crawler.py).                                   *)
(*                                                                         *)
(* The module holds several specifications over one set of variables; each *)
(* specification moves the variables of one component and leaves the       *)
(* others at their initial value.                                          *)
(***************************************************************************)
EXTENDS Integers, Sequences, FiniteSets, TLC

VARIABLES
    \* ---- Storage (storage.py) ----
    rows,       \* table bids, in insertion (rowid) order
    seq,        \* sqlite_sequence of the AUTOINCREMENT id: the largest id ever used
    now,        \* CURRENT_TIMESTAMP, in whole seconds
    spc,        \* per caller thread: position inside Storage.save
    sarg,       \* per caller thread: the arguments of the save call in progress
    hist,       \* the completed Storage calls, oldest first (observation)
    \* ---- KeywordMatcher (keyword.py) ----
    matcher,    \* the three keyword lists held by a KeywordMatcher
    mtexts,     \* the texts handed to match / match_any
    mres,       \* the results of match on the first text and of match_any on all
    \* ---- notification fan-out (app.py send_notifications, gui.py _do_crawl) ----
    dhost,      \* the host whose dispatcher runs: "gui" or "server"
    contacts,   \* the configured contacts, in list order
    chancfg,    \* the channel switches and provider settings of the configuration
    dpc,        \* position of the dispatcher: "idle", "fanout", "done"
    dpos,       \* next place of the loops over contacts and channels
    dbids,      \* unnotified_bids, as read when the dispatch began
    sent,       \* the sends attempted, in order, each with its outcome (observation)
    \* ---- the stop event shared by a host and the round it runs ----
    stop_event, \* threading.Event: TRUE when set
    \* ---- the API server (server/app.py AppState) ----
    is_running,             \* app_state.is_running
    current_task_running,   \* app_state.current_task_running
    next_run_time,          \* TRUE when app_state.next_run_time holds a time
    scheduler,              \* TRUE when app_state.scheduler is a running scheduler
    job,                    \* TRUE when 'monitor_job' is pending in app_state.scheduler
    recurring,              \* TRUE when that job has an IntervalTrigger
    orphans,                \* pending jobs of schedulers that start_monitor replaced
    tasks,                  \* the background tasks of the event loop
    today_rounds,           \* app_state.today_rounds
    last_round,             \* how the latest round to return ended (observation)
    \* ---- one round over the adapters ----
    rkinds,     \* the crawler class of each adapter: "http" or "selenium"
    rpc,        \* "boundary" (before an adapter), "crawl" (in its crawl), "ended"
    radapter,   \* the adapter the round is at
    rurl,       \* the place of crawl's loop over the list urls
    failed_count,   \* crawl's failed_count
    all_bids,   \* crawl's all_bids
    cres,       \* what crawl returned: "running", "list", "None", "raised"
    new_count,  \* records the round stored
    invoked,    \* adapters whose crawl was called (observation)
    fetched,    \* fetches made, each with the stop event at its check (observation)
    cuts,       \* adapters whose crawl found the stop event set (observation)
    stopped_at, \* where the round was each time the event was set (observation)
    aborted_at, \* the adapter before which the round found the event set, or 0
    saved,      \* urls of the records the round stored (observation)
    \* ---- AIGuard.check_relevance ----
    genabled,   \* self.enabled
    gkey,       \* TRUE when self.api_key is not empty
    graise,     \* the argument raise_on_error
    gpc,        \* "idle", "post" (in the retry loop), "done"
    gattempt,   \* attempt of `for attempt in range(max_retries)`
    gouts,      \* what each requests.post came to, in order (observation)
    gsleeps,    \* time.sleep(retry_delay) calls made
    gret,       \* how check_relevance ended: a return value or an exception
    \* ---- BaseCrawler.fetch inside the crawl of one adapter ----
    fmax,       \* self.max_retries
    fpc,        \* "check" (crawl, before a url), "get" (fetch, before a GET), "done"
    furl,       \* the list url the crawl is at
    fattempt,   \* attempt of `for attempt in range(self.max_retries)`
    flog,       \* the GETs of the fetch under way or just over, each with its
                \* answer and the stop event as it was then (observation)
    fwaits,     \* backoff waits of that fetch
    fresult,    \* what that fetch returned: "running", "html", "None"
    \* ---- BidMonitor.run_once (main.py) ----
    mpc,        \* "crawl" (in the loop over the crawlers), "notify", "done"
    mcrawler,   \* the crawler the loop is at
    mlog,       \* what each crawler came to and the urls stored from it (observation)
    all_matched_bids,   \* run_once's all_matched_bids
    msend,      \* the result of notifier.send: "none" (not called), "ok", "fail"
    mrun,       \* which call of run_once this is
    mpending,   \* urls of the records whose send failed in an earlier run
                \* (observation)
    \* ---- SharedBrowserManager and SeleniumCrawler (selenium_crawler.py) ----
    sbm_lock,       \* SharedBrowserManager._lock: a lock object, or NoLock
    sbm_holder,     \* per lock object: the thread inside its with block, or 0
    sbm_driver,     \* SharedBrowserManager._driver: a session, or NoDriver
    sbm_instance,   \* SharedBrowserManager._instance: TRUE, or FALSE for None
    bpc,            \* per crawler thread: its position in fetch / get_driver
    driver,         \* per crawler: self.driver
    with_lock,      \* per crawler thread: the lock its with block took
    cpc,            \* position of the thread in SharedBrowserManager.close
    made,           \* the sessions launched, in order (observation)
    quits,          \* the quit() calls made, in order (observation)
    got,            \* what each get_driver call returned (observation)
    shutdowns,      \* calls of SharedBrowserManager.close begun
    urls,           \* BaseCrawler.crawl: what get_list_urls() returned
    upc,            \* BaseCrawler.crawl: where the call is
    uidx,           \* BaseCrawler.crawl: position of `for url in urls`
    ufailed,        \* BaseCrawler.crawl: failed_count
    ubids,          \* BaseCrawler.crawl: all_bids
    ulog,           \* what each url that was attempted came to (observation)
    uret            \* BaseCrawler.crawl: what the call returned

storeVars == <<rows, seq, now, spc, sarg, hist>>
matchVars == <<matcher, mtexts, mres>>
dispVars == <<dhost, contacts, chancfg, dpc, dpos, dbids, sent>>
serverVars == <<is_running, current_task_running, next_run_time, scheduler, job,
                recurring, orphans, tasks, today_rounds, last_round>>
roundVars == <<rkinds, rpc, radapter, rurl, failed_count, all_bids, cres, new_count,
               invoked, fetched, cuts, stopped_at, aborted_at, saved>>
hostVars == <<stop_event, serverVars, roundVars>>
guardVars == <<genabled, gkey, graise, gpc, gattempt, gouts, gsleeps, gret>>
fetchVars == <<fmax, fpc, furl, fattempt, flog, fwaits, fresult>>
mainVars == <<mpc, mcrawler, mlog, all_matched_bids, msend, mrun, mpending>>
browserVars == <<sbm_lock, sbm_holder, sbm_driver, sbm_instance, bpc, driver,
                 with_lock, cpc, made, quits, got, shutdowns>>
crawlVars == <<urls, upc, uidx, ufailed, ubids, ulog, uret>>
extraVars == <<guardVars, fetchVars, mainVars, browserVars, crawlVars>>
vars == <<rows, seq, now, spc, sarg, hist, matcher, mtexts, mres,
          dhost, contacts, chancfg, dpc, dpos, dbids, sent,
          stop_event, is_running, current_task_running, next_run_time, scheduler,
          job, recurring, orphans, tasks, today_rounds, last_round,
          rkinds, rpc, radapter, rurl, failed_count, all_bids, cres, new_count,
          invoked, fetched, cuts, stopped_at, aborted_at, saved, extraVars>>

(***************************************************************************)
(* Bounds of the model.                                                    *)
(***************************************************************************)
NumCallers == 2     \* threads calling the store concurrently
MaxHist == 4        \* completed store calls that are recorded
MaxClock == 1       \* seconds the clock may advance

Range(s) == {s[i] : i \in DOMAIN s}

(***************************************************************************)
(* BidInfo and its unique_id.                                              *)
(***************************************************************************)
Urls == {"u1", "u2"}
Variants == {"a", "b"}

\* A BidInfo with url u; every other field is decided by the variant v, so two
\* records of different variants differ in all of them.
BidInfo(u, v) ==
    [title |-> <<"title", v>>, url |-> u, publish_date |-> <<"date", v>>,
     source |-> <<"source", v>>, content |-> <<"content", v>>,
     purchaser |-> <<"purchaser", v>>]

Bids == {BidInfo(u, v) : u \in Urls, v \in Variants}

\* hashlib.md5(url.encode()).hexdigest(): a digest of the url alone, distinct
\* for the distinct urls of the model.
Md5(url) == <<"md5", url>>

\* A digest that takes the title in as well as the url.
unique_id_url_and_title(bid) == Md5(<<bid.url, bid.title>>)

\* BidInfo.unique_id
unique_id(bid) == Md5(bid.url)


(***************************************************************************)
(* Storage: the table and its statements.                                  *)
(***************************************************************************)
NoBid == BidInfo("-", "-")

\* SELECT 1 FROM bids WHERE unique_id = ? ... fetchone() is not None
Exists(tbl, bid) == \E i \in DOMAIN tbl : tbl[i].unique_id = unique_id(bid)

\* The UNIQUE constraint of column unique_id, as the INSERT meets it.
UniqueViolation(tbl, uid) == \E i \in DOMAIN tbl : tbl[i].unique_id = uid

\* INSERT INTO bids (unique_id, title, url, publish_date, source, content,
\* purchaser, notified) VALUES (...): id and created_at take their defaults.
InsertRow(tbl, id, ts, bid, notified) ==
    Append(tbl,
        [id |-> id, unique_id |-> unique_id(bid), title |-> bid.title,
         url |-> bid.url, publish_date |-> bid.publish_date,
         source |-> bid.source, content |-> bid.content,
         purchaser |-> bid.purchaser,
         notified |-> IF notified THEN 1 ELSE 0, created_at |-> ts])

\* An UPDATE that flips the flag of the row instead of setting it.
UpdateNotifiedFlips(tbl, uid) ==
    [i \in DOMAIN tbl |->
        IF tbl[i].unique_id = uid THEN [tbl[i] EXCEPT !.notified = 1 - @] ELSE tbl[i]]

\* UPDATE bids SET notified = 1 WHERE unique_id = ?
UpdateNotified(tbl, uid) ==
    [i \in DOMAIN tbl |->
        IF tbl[i].unique_id = uid THEN [tbl[i] EXCEPT !.notified = 1] ELSE tbl[i]]

RECURSIVE UpdateEach(_, _)
UpdateEach(tbl, uids) ==
    IF uids = <<>> THEN tbl
    ELSE UpdateEach(UpdateNotified(tbl, Head(uids)), Tail(uids))

\* The three argument shapes of mark_notified: one BidInfo, a list of BidInfo,
\* a list of urls. An empty list updates nothing.
MarkArgs ==
    {[kind |-> "bid", items |-> <<b>>] : b \in Bids}
    \cup {[kind |-> "bids", items |-> <<b>>] : b \in Bids}
    \cup {[kind |-> "urls", items |-> <<u>>] : u \in Urls}
    \cup {[kind |-> "urls", items |-> <<u1, u2>>] : u1 \in Urls, u2 \in Urls}
    \cup {[kind |-> "bids", items |-> <<>>]}

mark_notified(tbl, arg) ==
    IF arg.kind = "urls"
    THEN UpdateEach(tbl, [i \in DOMAIN arg.items |-> Md5(arg.items[i])])
    ELSE UpdateEach(tbl, [i \in DOMAIN arg.items |-> unique_id(arg.items[i])])

Callers == 1..NumCallers

\* No match has been asked for.
NoResultIdle ==
    [done |-> FALSE,
     one |-> [matched |-> FALSE, matched_keywords |-> <<>>,
              excluded_by |-> [some |-> FALSE, kw |-> <<>>]],
     any |-> [matched |-> FALSE, matched_keywords |-> {},
              excluded_by |-> [some |-> FALSE, kw |-> <<>>]]]

Entry(op, t, bid, ret) == [op |-> op, who |-> t, bid |-> bid, ret |-> ret]

InFlight == Cardinality({t \in Callers : spc[t] # "idle"})

\* Room in the record of completed calls for one more call to begin.
Room == Len(hist) + InFlight < MaxHist

InitStoreVars ==
    /\ rows = <<>>
    /\ seq = 0
    /\ now = 0
    /\ spc = [t \in Callers |-> "idle"]
    /\ sarg = [t \in Callers |-> [bid |-> NoBid, notified |-> FALSE]]
    /\ hist = <<>>

\* Storage.save up to the return of self.exists(bid): a duplicate returns
\* False at once, otherwise the caller goes on to the INSERT.
SaveExists(t, bid, notified) ==
    /\ spc[t] = "idle"
    /\ Room
    /\ IF Exists(rows, bid)
       THEN /\ hist' = Append(hist, Entry("save", t, bid, "false"))
            /\ UNCHANGED <<spc, sarg>>
       ELSE /\ spc' = [spc EXCEPT ![t] = "insert"]
            /\ sarg' = [sarg EXCEPT ![t] = [bid |-> bid, notified |-> notified]]
            /\ UNCHANGED hist
    /\ UNCHANGED <<rows, seq, now>>

\* Storage.save from the INSERT to the return: the INSERT raises
\* sqlite3.IntegrityError when the unique_id is stored by now, which save does
\* not catch; otherwise the row is committed and save returns True.
SaveInsert(t) ==
    /\ spc[t] = "insert"
    /\ IF UniqueViolation(rows, unique_id(sarg[t].bid))
       THEN /\ hist' = Append(hist, Entry("save", t, sarg[t].bid, "IntegrityError"))
            /\ UNCHANGED <<rows, seq>>
       ELSE /\ rows' = InsertRow(rows, seq + 1, now, sarg[t].bid, sarg[t].notified)
            /\ seq' = seq + 1
            /\ hist' = Append(hist, Entry("save", t, sarg[t].bid, "true"))
    /\ spc' = [spc EXCEPT ![t] = "idle"]
    /\ UNCHANGED <<sarg, now>>

\* A save that writes the fields of the record over the stored row
\* (INSERT OR REPLACE in place of exists() and INSERT).
SaveCallReplaces(t, bid, notified) ==
    /\ spc[t] = "idle"
    /\ Room
    /\ IF Exists(rows, bid)
       THEN /\ rows' = [i \in DOMAIN rows |->
                          IF rows[i].unique_id = unique_id(bid)
                          THEN [rows[i] EXCEPT !.title = bid.title,
                                               !.notified = IF notified THEN 1 ELSE 0]
                          ELSE rows[i]]
            /\ hist' = Append(hist, Entry("save", t, bid, "false"))
            /\ UNCHANGED seq
       ELSE /\ rows' = InsertRow(rows, seq + 1, now, bid, notified)
            /\ seq' = seq + 1
            /\ hist' = Append(hist, Entry("save", t, bid, "true"))
    /\ UNCHANGED <<spc, sarg, now>>

\* Storage.save run by one caller with no other caller in between.
SaveCall(t, bid, notified) ==
    /\ spc[t] = "idle"
    /\ Room
    /\ IF Exists(rows, bid)
       THEN /\ hist' = Append(hist, Entry("save", t, bid, "false"))
            /\ UNCHANGED <<rows, seq>>
       ELSE IF UniqueViolation(rows, unique_id(bid))
       THEN /\ hist' = Append(hist, Entry("save", t, bid, "IntegrityError"))
            /\ UNCHANGED <<rows, seq>>
       ELSE /\ rows' = InsertRow(rows, seq + 1, now, bid, notified)
            /\ seq' = seq + 1
            /\ hist' = Append(hist, Entry("save", t, bid, "true"))
    /\ UNCHANGED <<spc, sarg, now>>

\* Storage.mark_notified
MarkNotified(t, arg) ==
    /\ spc[t] = "idle"
    /\ Room
    /\ rows' = mark_notified(rows, arg)
    /\ hist' = Append(hist, Entry("mark_notified", t, NoBid, "none"))
    /\ UNCHANGED <<seq, now, spc, sarg>>

\* Storage.clear_all: DELETE FROM bids (the AUTOINCREMENT sequence is kept).
ClearAll(t) ==
    /\ spc[t] = "idle"
    /\ Room
    /\ rows # <<>>
    /\ rows' = <<>>
    /\ hist' = Append(hist, Entry("clear_all", t, NoBid, "none"))
    /\ UNCHANGED <<seq, now, spc, sarg>>

\* A second passes.
Tick ==
    /\ now < MaxClock
    /\ now' = now + 1
    /\ UNCHANGED <<rows, seq, spc, sarg, hist>>

(***************************************************************************)
(* KeywordMatcher. A text is a sequence of characters.                     *)
(***************************************************************************)
MaxTextLen == 2     \* longest first text handed to match / match_any

Chars == {"a", "A", "b"}

\* str.lower() on one character of the alphabet
LowerChar(c) == CASE c = "A" -> "a" [] OTHER -> c

\* A lower() that leaves the text as it is.
LowerIdentity(text) == text

\* str.lower()
Lower(text) == [i \in DOMAIN text |-> LowerChar(text[i])]

\* kw in text: kw is a contiguous part of text
Contains(kw, text) ==
    \E i \in 0..(Len(text) - Len(kw)) :
        \A j \in 1..Len(kw) : text[i + j] = kw[j]

\* The keywords a configuration may list, as the hosts hand them over: stripped
\* and never empty (app.py 204-206, gui.py 3223-3225), in either case.
KwPool == {<<"A">>, <<"b">>, <<"a", "b">>}

KwLists ==
    {<<>>} \cup {<<k>> : k \in KwPool}
    \cup {l \in {<<k1, k2>> : k1 \in KwPool, k2 \in KwPool} : l[1] # l[2]}

TextsUpTo(n) == UNION {[1..k -> Chars] : k \in 0..n}

\* title and content of a record: the content is empty or a short excerpt
TextPairs == {<<t, c>> : t \in TextsUpTo(MaxTextLen), c \in TextsUpTo(1)}

\* KeywordMatcher.__init__
KeywordMatcherInit(include, exclude, must) ==
    [include |-> [i \in DOMAIN include |-> Lower(include[i])],
     exclude |-> [i \in DOMAIN exclude |-> Lower(exclude[i])],
     must |-> [i \in DOMAIN must |-> Lower(must[i])]]

None == [some |-> FALSE, kw |-> <<>>]
Some(kw) == [some |-> TRUE, kw |-> kw]
\* Python truth of an Optional[str]
Truthy(e) == e.some /\ e.kw # <<>>

MatchResult(matched, kws, excluded_by) ==
    [matched |-> matched, matched_keywords |-> kws, excluded_by |-> excluded_by]

\* step 1 of match: the first exclude keyword found in the text, if any
ExcludeHits(m, tl) == SelectSeq(m.exclude, LAMBDA kw : Contains(kw, tl))

\* A gate that lets every text through.
MustGateOpen(m, tl) == TRUE

\* step 2 of match: with must-contain keywords set, one of them is in the text
MustGate(m, tl) ==
    m.must = <<>> \/ \E i \in DOMAIN m.must : Contains(m.must[i], tl)

\* step 3 of match: the include keywords found, then the must-contain
\* keywords found that are not listed yet
RECURSIVE AppendMust(_, _, _)
AppendMust(acc, must, tl) ==
    IF must = <<>> THEN acc
    ELSE IF Contains(Head(must), tl) /\ Head(must) \notin Range(acc)
         THEN AppendMust(Append(acc, Head(must)), Tail(must), tl)
         ELSE AppendMust(acc, Tail(must), tl)

MatchedKeywords(m, tl) ==
    AppendMust(SelectSeq(m.include, LAMBDA kw : Contains(kw, tl)), m.must, tl)

\* KeywordMatcher.match
match(m, text) ==
    IF text = <<>> THEN MatchResult(FALSE, <<>>, None)
    ELSE LET tl == Lower(text)
             ex == ExcludeHits(m, tl)
             kws == MatchedKeywords(m, tl)
         IN  IF ex # <<>> THEN MatchResult(FALSE, <<>>, Some(Head(ex)))
             ELSE IF ~MustGate(m, tl) THEN MatchResult(FALSE, <<>>, None)
             ELSE MatchResult(Len(kws) > 0, kws, None)

\* The loop of match_any: the last exclusion met and all keywords matched.
RECURSIVE MatchAnyLoop(_, _, _, _)
MatchAnyLoop(m, texts, excluded_by, all) ==
    IF texts = <<>> THEN [excluded_by |-> excluded_by, all |-> all]
    ELSE LET r == match(m, Head(texts))
         IN  MatchAnyLoop(m, Tail(texts),
                 IF Truthy(r.excluded_by) THEN r.excluded_by ELSE excluded_by,
                 all \o r.matched_keywords)

\* KeywordMatcher.match_any: list(set(...)) leaves the keywords in no
\* particular order, so they are a set here.
match_any(m, texts) ==
    LET l == MatchAnyLoop(m, texts, None, <<>>)
    IN  IF Truthy(l.excluded_by) THEN MatchResult(FALSE, {}, l.excluded_by)
        ELSE MatchResult(Range(l.all) # {}, Range(l.all), None)

NoResult == NoResultIdle

\* match on the title alone and match_any on title and content
Match ==
    /\ ~mres.done
    /\ mres' = [done |-> TRUE, one |-> match(matcher, mtexts[1]),
                any |-> match_any(matcher, mtexts)]
    /\ UNCHANGED <<matcher, mtexts>>

(***************************************************************************)
(* The notification fan-out of the two hosts.                              *)
(***************************************************************************)
NumContacts == 2    \* contacts in the configuration

SendCap == 10       \* unnotified_bids[:10]

Hosts == {"gui", "server"}

\* The order in which a host goes through the channels of one contact.
ChannelOrder(host) ==
    IF host = "gui" THEN <<"email", "sms", "wechat", "voice">>
    ELSE <<"email", "sms", "voice", "wechat">>

Contact(enabled, email, password, phone, token) ==
    [enabled |-> enabled, email |-> email, email_password |-> password,
     phone |-> phone, wechat_token |-> token]

\* What a contact has filled in: nothing, a mailbox, a phone number, a mailbox
\* and a chat token; each either enabled or not.
ContactKinds ==
    {Contact(e, FALSE, FALSE, FALSE, FALSE) : e \in BOOLEAN}
    \cup {Contact(e, TRUE, TRUE, FALSE, FALSE) : e \in BOOLEAN}
    \cup {Contact(e, FALSE, FALSE, TRUE, FALSE) : e \in BOOLEAN}
    \cup {Contact(e, TRUE, TRUE, FALSE, TRUE) : e \in BOOLEAN}

ChanCfg(email, sms, voice, wechat, key, template, tts) ==
    [email_enabled |-> email, sms_enabled |-> sms, voice_enabled |-> voice,
     wechat_enabled |-> wechat, sms_access_key_id |-> key,
     sms_template_code |-> template, voice_tts_code |-> tts]

\* Every channel on and set up; mail and chat only; every channel on with
\* the SMS template and the voice template missing.
ChanCfgs ==
    {ChanCfg(TRUE, TRUE, TRUE, TRUE, TRUE, TRUE, TRUE),
     ChanCfg(TRUE, FALSE, FALSE, TRUE, FALSE, FALSE, FALSE),
     ChanCfg(TRUE, TRUE, TRUE, TRUE, TRUE, FALSE, FALSE)}

\* Whether the host's loop body reaches the send of channel ch for contact c.
Attempts(host, cfg, c, ch) ==
    CASE ch = "email" -> cfg.email_enabled /\ c.email /\ c.email_password
      [] ch = "sms" ->
            /\ cfg.sms_enabled /\ c.phone /\ cfg.sms_access_key_id
            /\ (host = "server" => cfg.sms_template_code)
      [] ch = "voice" -> cfg.voice_enabled /\ c.phone /\ cfg.voice_tts_code
      [] ch = "wechat" -> cfg.wechat_enabled /\ c.wechat_token

\* The places of the two nested loops, contact by contact, channel by channel.
Places(host, cs) ==
    [k \in 1..(4 * Len(cs)) |->
        [contact |-> ((k - 1) \div 4) + 1,
         channel |-> ChannelOrder(host)[((k - 1) % 4) + 1]]]

\* A disabled contact is skipped by `continue`.
SendsAt(host, cfg, cs, k) ==
    LET pl == Places(host, cs)[k]
    IN  cs[pl.contact].enabled /\ Attempts(host, cfg, cs[pl.contact], pl.channel)

\* The places from k on at which a send is made.
SendPlaces(host, cfg, cs, k) ==
    {j \in k..(4 * Len(cs)) : SendsAt(host, cfg, cs, j)}

Min(S) == CHOOSE x \in S : \A y \in S : x <= y

\* An exception that leaves the loops instead of being caught at the send.
NextPlaceRaiseEscapes(cs, k, out) == IF out = "raise" THEN 4 * Len(cs) + 1 ELSE k + 1

\* Where the loops go on after the send at place k ended with `out`: a False
\* result and an exception are both logged by the handler around the send.
NextPlace(cs, k, out) == k + 1

\* SELECT ... FROM bids WHERE notified = 0
get_unnotified(tbl) ==
    LET un == SelectSeq(tbl, LAMBDA r : r.notified = 0)
    IN  [i \in DOMAIN un |->
            [title |-> un[i].title, url |-> un[i].url,
             publish_date |-> un[i].publish_date, source |-> un[i].source,
             content |-> un[i].content, purchaser |-> un[i].purchaser]]

\* A row as the read paths hand it back.
RowBid(r) ==
    [title |-> r.title, url |-> r.url, publish_date |-> r.publish_date,
     source |-> r.source, content |-> r.content, purchaser |-> r.purchaser]

\* The orders in which the rows of tbl can be listed.
Orders(tbl) ==
    {p \in [DOMAIN tbl -> DOMAIN tbl] : \A i, j \in DOMAIN tbl : i # j => p[i] # p[j]}

\* SELECT ... FROM bids ORDER BY created_at DESC: created_at is
\* CURRENT_TIMESTAMP, whole seconds, and rows of the same second come in an
\* order the statement does not fix.
get_all(tbl) ==
    {[i \in DOMAIN tbl |-> RowBid(tbl[p[i]])] :
        p \in {q \in Orders(tbl) :
                 \A i, j \in DOMAIN tbl :
                     i < j => tbl[q[i]].created_at >= tbl[q[j]].created_at}}

\* The records a send carries: all of them in the GUI, the first ten on the
\* server.
Dispatched(host, bids) ==
    IF host = "server" /\ Len(bids) > SendCap THEN SubSeq(bids, 1, SendCap) ELSE bids

UrlsOf(bids) == [i \in DOMAIN bids |-> bids[i].url]

Outcomes == {"ok", "fail", "raise"}

\* The dispatch begins: unnotified_bids is read. The GUI goes through its
\* contacts only when there is an unnotified record.
DispatchBegin ==
    /\ dpc = "idle"
    /\ dbids' = get_unnotified(rows)
    /\ dpc' = IF dhost = "gui" /\ get_unnotified(rows) = <<>> THEN "done" ELSE "fanout"
    /\ dpos' = 1
    /\ UNCHANGED <<dhost, contacts, chancfg, sent, rows>>

\* The loops run up to the next send, which ends with `out`.
SendNext(out) ==
    /\ dpc = "fanout"
    /\ SendPlaces(dhost, chancfg, contacts, dpos) # {}
    /\ LET k == Min(SendPlaces(dhost, chancfg, contacts, dpos))
           pl == Places(dhost, contacts)[k]
       IN  /\ sent' = Append(sent,
                  [place |-> k, contact |-> pl.contact, channel |-> pl.channel,
                   out |-> out,
                   urls |-> Range(UrlsOf(Dispatched(dhost, dbids)))])
           /\ dpos' = NextPlace(contacts, k, out)
    /\ UNCHANGED <<dhost, contacts, chancfg, dpc, dbids, rows>>

\* The loops are through. The GUI marks every record of unnotified_bids
\* (mark_notified([b.url for b in unnotified_bids])); send_notifications of
\* the server returns.
DispatchEnd ==
    /\ dpc = "fanout"
    /\ SendPlaces(dhost, chancfg, contacts, dpos) = {}
    /\ dpc' = "done"
    /\ rows' = IF dhost = "gui"
               THEN mark_notified(rows, [kind |-> "urls", items |-> UrlsOf(dbids)])
               ELSE rows
    /\ UNCHANGED <<dhost, contacts, chancfg, dpos, dbids, sent>>

(***************************************************************************)
(* The API server: start, stop, run-once, the scheduler's job and          *)
(* run_monitor_task.  A round runs in the executor's thread while the      *)
(* event loop goes on serving requests; what the round does inside is the  *)
(* subject of the round section below.                                     *)
(***************************************************************************)
MaxTasks == 2       \* background tasks alive at once
MaxRounds == 2      \* rounds counted in today_rounds
MaxOrphans == 1     \* pending jobs of replaced schedulers

Tasks == 1..MaxTasks

\* A background task: what it runs, where it is, the was_running that
\* run_once took for it, and whether stop was called while its round was in
\* flight (observation).
NoTask == [kind |-> "none", pc |-> "free", was_running |-> FALSE, cancelled |-> FALSE]

Task(kind, was_running) ==
    [kind |-> kind, pc |-> "queued", was_running |-> was_running, cancelled |-> FALSE]

HasFree == \E t \in Tasks : tasks[t].pc = "free"

FreeSlot == Min({t \in Tasks : tasks[t].pc = "free"})

RoundsInFlight == {t \in Tasks : tasks[t].pc = "round"}

\* POST /api/start: refused while is_running; otherwise the stop event is
\* cleared, a new scheduler takes the place of app_state.scheduler and
\* run_monitor_task is added as a background task.
start_monitor ==
    /\ ~is_running
    /\ HasFree
    /\ (scheduler /\ job) => orphans < MaxOrphans
    /\ stop_event' = FALSE
    /\ is_running' = TRUE
    /\ scheduler' = TRUE
    /\ job' = FALSE
    /\ recurring' = FALSE
    /\ orphans' = IF scheduler /\ job THEN orphans + 1 ELSE orphans
    /\ next_run_time' = FALSE
    /\ tasks' = [tasks EXCEPT ![FreeSlot] = Task("start", FALSE)]
    /\ UNCHANGED <<current_task_running, today_rounds, last_round>>

\* POST /api/stop: refused unless is_running.
stop_monitor ==
    /\ is_running
    /\ stop_event' = TRUE
    /\ is_running' = FALSE
    /\ scheduler' = FALSE
    /\ job' = FALSE
    /\ recurring' = FALSE
    /\ next_run_time' = FALSE
    /\ tasks' = [t \in Tasks |-> IF tasks[t].pc = "round"
                                 THEN [tasks[t] EXCEPT !.cancelled = TRUE]
                                 ELSE tasks[t]]
    /\ UNCHANGED <<current_task_running, orphans, today_rounds, last_round>>

\* POST /api/run-once: was_running is taken, the stop event is cleared and
\* manual_run_task is added as a background task.
run_once ==
    /\ HasFree
    /\ stop_event' = FALSE
    /\ tasks' = [tasks EXCEPT ![FreeSlot] = Task("manual", is_running)]
    /\ UNCHANGED <<is_running, current_task_running, next_run_time, scheduler, job,
                   recurring, orphans, today_rounds, last_round>>

\* The trigger of 'monitor_job' fires and run_monitor_task is put on the
\* event loop.  A DateTrigger job is spent by it; an IntervalTrigger job
\* stays, and is skipped while a run of it is still going (max_instances
\* is 1).
JobFires ==
    /\ scheduler /\ job
    /\ HasFree
    /\ recurring => ~\E t \in Tasks : tasks[t].kind = "sched"
    /\ job' = recurring
    /\ tasks' = [tasks EXCEPT ![FreeSlot] = Task("sched", FALSE)]
    /\ UNCHANGED <<stop_event, is_running, current_task_running, next_run_time,
                   scheduler, recurring, orphans, today_rounds, last_round>>

\* The same for a job left in a scheduler that was replaced without being
\* shut down.
OrphanFires ==
    /\ orphans > 0
    /\ HasFree
    /\ orphans' = orphans - 1
    /\ tasks' = [tasks EXCEPT ![FreeSlot] = Task("sched", FALSE)]
    /\ UNCHANGED <<stop_event, is_running, current_task_running, next_run_time,
                   scheduler, job, recurring, today_rounds, last_round>>

\* manual_run_task's finally: with was_running false the host goes back to
\* stopped.
Restores(t) == tasks[t].kind = "manual" /\ ~tasks[t].was_running

\* A background task runs up to the await of run_in_executor:
\* manual_run_task sets is_running; run_monitor_task returns when is_running
\* is false or the stop event is set, and otherwise sets
\* current_task_running and hands the round to the executor.
TaskBegin(t) ==
    /\ tasks[t].pc = "queued"
    /\ LET running == tasks[t].kind = "manual" \/ is_running
       IN  IF ~running \/ stop_event
           THEN /\ is_running' = IF Restores(t) THEN FALSE ELSE running
                /\ next_run_time' = IF Restores(t) THEN FALSE ELSE next_run_time
                /\ tasks' = [tasks EXCEPT ![t] = NoTask]
                /\ UNCHANGED current_task_running
           ELSE /\ today_rounds + Cardinality(RoundsInFlight) < MaxRounds
                /\ is_running' = running
                /\ current_task_running' = TRUE
                /\ tasks' = [tasks EXCEPT ![t].pc = "round"]
                /\ UNCHANGED next_run_time
    /\ UNCHANGED <<stop_event, scheduler, job, recurring, orphans, today_rounds,
                   last_round>>

\* POST /api/config: with the monitor running and an interval in the update,
\* 'monitor_job' is rescheduled with an IntervalTrigger.  reschedule_job
\* raises JobLookupError when the scheduler holds no such job; the request
\* then fails with nothing rescheduled.
update_config(has_interval) ==
    /\ recurring' = IF is_running /\ has_interval /\ scheduler /\ job
                    THEN TRUE ELSE recurring
    /\ UNCHANGED <<stop_event, is_running, current_task_running, next_run_time,
                   scheduler, job, orphans, tasks, today_rounds, last_round>>

RoundOutcomes == {"none", "new", "raise"}

\* What is kept of a round that returned: whether it stored new records,
\* whether the stop event was set when it came back, and whether
\* send_notifications was called.
NoRound == [ended |-> FALSE, new |-> FALSE, stopped |-> FALSE, dispatched |-> FALSE]

\* `if new_count > 0 and not app_state.stop_event.is_set()`, reached only by a
\* round that came back without an exception.
Notifies(out, stop) == out = "new" /\ ~stop

\* monitor.run_once comes back from the executor with no new record, with
\* new records, or with an exception, and run_monitor_task runs to its end:
\* an interrupted round returns at once; otherwise the notifications go out
\* when there are new records, today_rounds is counted (from 1 on a new day)
\* and the next round is scheduled while the host is running.  The finally
\* clause clears current_task_running on every path.
RoundReturns(t, out, newday) ==
    /\ tasks[t].pc = "round"
    /\ LET interrupted == out # "raise" /\ stop_event
           resched == ~interrupted /\ is_running /\ ~stop_event
       IN  /\ current_task_running' = FALSE
           /\ today_rounds' = IF interrupted THEN today_rounds
                              ELSE IF newday THEN 1 ELSE today_rounds + 1
           /\ last_round' = [ended |-> TRUE, new |-> out = "new",
                              stopped |-> stop_event,
                              dispatched |-> Notifies(out, stop_event)]
           /\ job' = IF resched /\ scheduler THEN TRUE ELSE job
           /\ recurring' = IF resched /\ scheduler THEN FALSE ELSE recurring
           /\ is_running' = IF Restores(t) THEN FALSE ELSE is_running
           /\ next_run_time' = IF Restores(t) THEN FALSE
                               ELSE IF resched THEN TRUE ELSE next_run_time
    /\ tasks' = [tasks EXCEPT ![t] = NoTask]
    /\ UNCHANGED <<stop_event, scheduler, orphans>>

(***************************************************************************)
(* One round over the adapters.  The loop over the adapters follows the    *)
(* RoundOrchestrator of the specification (section 4.7); what an adapter   *)
(* does when it is invoked is BaseCrawler.crawl and SeleniumCrawler.crawl. *)
(* The stop event belongs to the host, which sets it and clears it while   *)
(* the round runs in its own thread.                                       *)
(***************************************************************************)
NumAdapters == 3        \* adapters of the round
UrlsPerAdapter == 2     \* list urls of an adapter fetched over HTTP
MaxStops == 2           \* times the host sets the stop event during the round

Adapters == 1..NumAdapters

CrawlerKinds == {"http", "selenium"}

\* get_list_urls() of a BaseCrawler; the one url of a SeleniumCrawler.
ListUrls(kind) == IF kind = "http" THEN 1..UrlsPerAdapter ELSE 1..1

\* What a fetch and the parse of its page come to: no html, a page of the
\* anti-crawler, a page on which parse raises, a page with a record that the
\* keyword policy accepts ("a") or rejects ("b").
FetchOutcomes == {"none", "blocked", "raise", "a", "b"}

\* The record on the page of url u of adapter a: adapters list the same
\* announcement under the same url.
PageBid(a, u, v) == BidInfo(IF (a + u) % 2 = 0 THEN "u1" ELSE "u2", v)

\* The classification of a record by the policy of the round.
Accepts(bid) == bid.title = <<"title", "a">>

\* A crawl that never looks at the stop event.
StopNeverSeen(ev) == FALSE

\* stop_event and stop_event.is_set()
StopSeen(ev) == ev

\* A test that leaves out `and len(urls) > 0`.
NoneWhenCountsMeet(failed, n) == IF failed = n THEN "None" ELSE "list"

\* if failed_count == len(urls) and len(urls) > 0: return None
HttpResult(failed, n) == IF failed = n /\ n > 0 THEN "None" ELSE "list"

\* The accepted records of a crawl are saved one by one; a record whose
\* unique_id is stored is dropped.
RECURSIVE SaveAll(_, _, _)
SaveAll(tbl, bids, id) ==
    IF bids = <<>> THEN tbl
    ELSE IF Accepts(Head(bids)) /\ ~Exists(tbl, Head(bids))
    THEN SaveAll(InsertRow(tbl, id, now, Head(bids), FALSE), Tail(bids), id + 1)
    ELSE SaveAll(tbl, Tail(bids), id)

\* Where the round is: before an adapter, in its crawl, or past its crawl.
RoundPhase == IF rpc = "crawl" /\ cres # "running" THEN "returned" ELSE rpc

\* The host sets the stop event (stop_monitor, _stop_monitor).
SetStop ==
    /\ rpc # "ended"
    /\ ~stop_event
    /\ Cardinality(stopped_at) < MaxStops
    /\ stop_event' = TRUE
    /\ stopped_at' = stopped_at \cup {[adapter |-> radapter, phase |-> RoundPhase]}
    /\ UNCHANGED <<rkinds, rpc, radapter, rurl, failed_count, all_bids, cres,
                   new_count, invoked, fetched, cuts, aborted_at, saved, rows, seq>>

\* The host clears the stop event (start_monitor, run_once, _start_monitor,
\* _crawl_once).
ClearStop ==
    /\ rpc # "ended"
    /\ stop_event
    /\ stop_event' = FALSE
    /\ UNCHANGED <<roundVars, rows, seq>>

\* The round comes to the next adapter: it ends when there is none or when
\* the stop event is set, and otherwise calls the adapter's crawl.
AdapterBoundary ==
    /\ rpc = "boundary"
    /\ IF radapter > NumAdapters
       THEN /\ rpc' = "ended"
            /\ UNCHANGED <<rurl, failed_count, all_bids, invoked, aborted_at>>
       ELSE IF stop_event
       THEN /\ rpc' = "ended"
            /\ aborted_at' = radapter
            /\ UNCHANGED <<rurl, failed_count, all_bids, invoked>>
       ELSE /\ rpc' = "crawl"
            /\ invoked' = invoked \cup {radapter}
            /\ rurl' = 1
            /\ failed_count' = 0
            /\ all_bids' = <<>>
            /\ UNCHANGED aborted_at
    /\ UNCHANGED <<stop_event, rkinds, radapter, cres, new_count, fetched, cuts,
                   stopped_at, saved, rows, seq>>

\* BaseCrawler.crawl, one turn of `for url in urls`: break when the stop
\* event is set; otherwise fetch, _is_blocked, parse.  After the last turn,
\* or the break, crawl returns.
CrawlUrl(out) ==
    /\ rpc = "crawl" /\ cres = "running"
    /\ rkinds[radapter] = "http"
    /\ LET n == Cardinality(ListUrls("http"))
       IN  IF StopSeen(stop_event)
           THEN /\ cuts' = cuts \cup {radapter}
                /\ cres' = HttpResult(failed_count, n)
                /\ UNCHANGED <<rurl, failed_count, all_bids, fetched>>
           ELSE /\ fetched' = fetched \cup
                        {[adapter |-> radapter, url |-> rurl, stop |-> stop_event]}
                /\ failed_count' = IF out \in {"a", "b"} THEN failed_count
                                   ELSE failed_count + 1
                /\ all_bids' = IF out \in {"a", "b"}
                               THEN Append(all_bids, PageBid(radapter, rurl, out))
                               ELSE all_bids
                /\ rurl' = rurl + 1
                /\ cres' = IF rurl + 1 \in ListUrls("http") THEN "running"
                           ELSE HttpResult(failed_count', n)
                /\ UNCHANGED cuts
    /\ UNCHANGED <<stop_event, rkinds, rpc, radapter, new_count, invoked,
                   stopped_at, aborted_at, saved, rows, seq>>

\* SeleniumCrawler.crawl: [] when the stop event is set; None when fetch
\* gives no html; otherwise what parse returns or raises.
CrawlSelenium(out) ==
    /\ rpc = "crawl" /\ cres = "running"
    /\ rkinds[radapter] = "selenium"
    /\ IF StopSeen(stop_event)
       THEN /\ cuts' = cuts \cup {radapter}
            /\ cres' = "list"
            /\ UNCHANGED <<rurl, all_bids, fetched>>
       ELSE /\ fetched' = fetched \cup
                    {[adapter |-> radapter, url |-> rurl, stop |-> stop_event]}
            /\ rurl' = rurl + 1
            /\ cres' = CASE out = "none" -> "None"
                         [] out = "raise" -> "raised"
                         [] OTHER -> "list"
            /\ all_bids' = IF out \in {"a", "b"}
                           THEN <<PageBid(radapter, rurl, out)>> ELSE <<>>
            /\ UNCHANGED cuts
    /\ UNCHANGED <<stop_event, rkinds, rpc, radapter, failed_count, new_count,
                   invoked, stopped_at, aborted_at, saved, rows, seq>>

\* The adapter's crawl is back: the round stores the accepted new records of
\* a list, takes None or an exception as a failed adapter, and goes on to
\* the next adapter.
AdapterReturn ==
    /\ rpc = "crawl" /\ cres # "running"
    /\ LET tbl == IF cres = "list" THEN SaveAll(rows, all_bids, seq + 1) ELSE rows
           new == {tbl[i].url : i \in (Len(rows) + 1)..Len(tbl)}
       IN  /\ rows' = tbl
           /\ seq' = seq + Cardinality(new)
           /\ new_count' = new_count + Cardinality(new)
           /\ saved' = saved \cup new
    /\ radapter' = radapter + 1
    /\ rpc' = "boundary"
    /\ cres' = "running"
    /\ rurl' = 1
    /\ failed_count' = 0
    /\ all_bids' = <<>>
    /\ UNCHANGED <<stop_event, rkinds, invoked, fetched, cuts, stopped_at, aborted_at>>

(***************************************************************************)
(* AIGuard.check_relevance: the second filter.  A reason is kept as the    *)
(* kind of its text and the number the text is formatted with.             *)
(***************************************************************************)
max_retries == 3    \* max_retries = 3

\* What one requests.post comes to: ConnectionError, Timeout, another
\* exception of requests, a status other than 200, a body without
\* choices[0].message.content, a JSON verdict, a text that is not JSON.
PostOutcomes ==
    {"ConnectionError", "Timeout", "RequestException", "status", "shape",
     "relevant", "irrelevant", "text_yes", "text_no"}

Transient == {"ConnectionError", "Timeout"}

NoReturn == [how |-> "none", relevant |-> FALSE, reason |-> <<"none", 0>>]

Return(relevant, reason) == [how |-> "return", relevant |-> relevant, reason |-> reason]

\* The function ends without a return statement.
ReturnNone == [how |-> "return_none", relevant |-> FALSE, reason |-> <<"none", 0>>]

Raise(reason) == [how |-> "raise", relevant |-> FALSE, reason |-> reason]

\* f"AI网络异常（已重试{max_retries}次）"
NetworkReason(n) == <<"network error, retried n times", n>>

\* A loop that takes every attempt for one that has a retry after it.
RetryLeftAlways(attempt) == TRUE

\* if attempt < max_retries - 1
RetryLeft(attempt) == attempt < max_retries - 1

\* check_relevance up to the first request: a guard that is off or has no
\* key lets the record through.
GuardBegin ==
    /\ gpc = "idle"
    /\ IF ~genabled THEN gret' = Return(TRUE, <<"guard not enabled", 0>>) /\ gpc' = "done"
       ELSE IF ~gkey THEN gret' = Return(TRUE, <<"no api key", 0>>) /\ gpc' = "done"
       ELSE gret' = gret /\ gpc' = "post"
    /\ UNCHANGED <<genabled, gkey, graise, gattempt, gouts, gsleeps>>

\* What the handlers make of an exception that is not a network failure:
\* re-raised with raise_on_error, otherwise the record is let through.
OnException(kind) ==
    IF graise THEN Raise(<<kind, 0>>) ELSE Return(TRUE, <<"request failed", 0>>)

\* One turn of the retry loop: the request and what follows from its answer.
GuardPost(out) ==
    /\ gpc = "post"
    /\ gouts' = Append(gouts, out)
    /\ IF out \in Transient
       THEN IF RetryLeft(gattempt)
            THEN /\ gsleeps' = gsleeps + 1
                 /\ gattempt' = gattempt + 1
                 /\ IF gattempt + 1 < max_retries
                    THEN gpc' = "post" /\ gret' = gret
                    ELSE gpc' = "done" /\ gret' = ReturnNone
            ELSE /\ gpc' = "done"
                 /\ gret' = IF graise THEN Raise(<<out, 0>>)
                            ELSE Return(TRUE, NetworkReason(max_retries))
                 /\ UNCHANGED <<gsleeps, gattempt>>
       ELSE /\ gpc' = "done"
            /\ gret' = CASE out = "relevant" -> Return(TRUE, <<"reason of the model", 0>>)
                         [] out = "irrelevant" -> Return(FALSE, <<"reason of the model", 0>>)
                         [] out = "text_yes" -> Return(TRUE, <<"text of the model", 0>>)
                         [] out = "text_no" -> Return(FALSE, <<"text of the model", 0>>)
                         [] OTHER -> OnException(out)
            /\ UNCHANGED <<gsleeps, gattempt>>
    /\ UNCHANGED <<genabled, gkey, graise>>

(***************************************************************************)
(* BaseCrawler.fetch, GET by GET, inside the loop of BaseCrawler.crawl     *)
(* over the list urls of one adapter.                                      *)
(***************************************************************************)
MaxRetriesCfg == 3      \* largest max_retries a configuration sets

\* What a GET comes to: a page, an exception of requests, or a status for
\* which raise_for_status raises HTTPError.
Statuses == {401, 403, 500}

Answer(exc, status) == [exc |-> exc, status |-> status]

Page == Answer("none", 200)

Answers ==
    {Page}
    \cup {Answer(e, 0) : e \in {"SSLError", "Timeout", "ConnectionError", "RequestException"}}
    \cup {Answer("HTTPError", c) : c \in Statuses}

\* bool(response) is response.ok: the status is below 400.
ResponseTruthy(status) == status < 400

\* status_code = e.response.status_code if e.response else 'N/A'
StatusSeen(status) ==
    IF ResponseTruthy(status) THEN [known |-> TRUE, code |-> status]
    ELSE [known |-> FALSE, code |-> 0]

\* if status_code in [401, 403]: return None
NoRetry(ans) ==
    /\ ans.exc = "HTTPError"
    /\ StatusSeen(ans.status).known
    /\ StatusSeen(ans.status).code \in {401, 403}

\* A loop that waits after its last attempt as well.
WaitsAfterEvery(attempt, max) == attempt < max

\* if attempt < self.max_retries - 1: the backoff wait before a retry
FetchRetryLeft(attempt, max) == attempt < max - 1

\* The host sets the stop event while the adapter is crawled.
FetchSetStop ==
    /\ fpc # "done"
    /\ ~stop_event
    /\ stop_event' = TRUE
    /\ UNCHANGED fetchVars

\* BaseCrawler.crawl before a url: the loop is over, or broken by the stop
\* event, or fetch(url) is called; with max_retries 0 fetch returns None
\* without a GET.
FetchCrawlCheck ==
    /\ fpc = "check"
    /\ IF furl > UrlsPerAdapter \/ StopSeen(stop_event)
       THEN /\ fpc' = "done"
            /\ UNCHANGED <<furl, fattempt, flog, fwaits, fresult>>
       ELSE /\ fattempt' = 0
            /\ flog' = <<>>
            /\ fwaits' = 0
            /\ IF fmax > 0
               THEN fpc' = "get" /\ fresult' = "running" /\ furl' = furl
               ELSE fpc' = "check" /\ fresult' = "None" /\ furl' = furl + 1
    /\ UNCHANGED <<stop_event, fmax>>

\* One turn of fetch's loop: the GET, and on a failure the backoff wait
\* when a retry is left.  When fetch returns, crawl goes on to the next url.
FetchGet(ans) ==
    /\ fpc = "get"
    /\ flog' = Append(flog, [ans |-> ans, stop |-> stop_event])
    /\ IF ans = Page
       THEN /\ fresult' = "html"
            /\ fpc' = "check"
            /\ furl' = furl + 1
            /\ UNCHANGED <<fattempt, fwaits>>
       ELSE IF NoRetry(ans)
       THEN /\ fresult' = "None"
            /\ fpc' = "check"
            /\ furl' = furl + 1
            /\ UNCHANGED <<fattempt, fwaits>>
       ELSE /\ fwaits' = IF FetchRetryLeft(fattempt, fmax) THEN fwaits + 1 ELSE fwaits
            /\ fattempt' = fattempt + 1
            /\ IF fattempt + 1 < fmax
               THEN fpc' = "get" /\ fresult' = fresult /\ furl' = furl
               ELSE fpc' = "check" /\ fresult' = "None" /\ furl' = furl + 1
    /\ UNCHANGED <<stop_event, fmax>>

(***************************************************************************)
(* BidMonitor.run_once: the round of the command-line monitor.             *)
(***************************************************************************)
NumCrawlers == 3        \* enabled_sites: ['ccgp', 'chinabidding', 'ebnew']
MaxCrawlBids == 2       \* records one crawl returns
MaxRuns == 2            \* calls of run_once, one after the other

\* What crawler.crawl() comes to: None, an exception, or a list of records.
\* A record of variant "a" is matched by match_any, one of variant "b" is not.
CrawlLists == UNION {[1..n -> Bids] : n \in 0..MaxCrawlBids}

CrawlOutcomes ==
    {[kind |-> "None", bids |-> <<>>], [kind |-> "raise", bids |-> <<>>]}
    \cup {[kind |-> "list", bids |-> l] : l \in CrawlLists}

\* match_result.matched and not self.storage.exists(bid): the records of a
\* crawl that are saved and appended to all_matched_bids, in order.
RECURSIVE MatchedNew(_, _)
MatchedNew(tbl, bids) ==
    IF bids = <<>> THEN <<>>
    ELSE IF Accepts(Head(bids)) /\ ~Exists(tbl, Head(bids))
    THEN <<Head(bids)>> \o
         MatchedNew(InsertRow(tbl, Len(tbl) + 1, now, Head(bids), FALSE), Tail(bids))
    ELSE MatchedNew(tbl, Tail(bids))

\* A loop that a failed crawler ends.
StopsAtFailure(i, kind) == IF kind = "list" THEN i + 1 ELSE NumCrawlers + 1

\* The try/except around each crawler: whatever the crawler came to, the
\* loop goes on with the next one.
NextCrawler(i, kind) == i + 1

\* One turn of `for crawler in self.crawlers`: None makes `for bid in bids`
\* raise TypeError, which the handler logs like an exception of the crawl.
MainCrawl(out) ==
    /\ mpc = "crawl"
    /\ mcrawler <= NumCrawlers
    /\ LET new == IF out.kind = "list" THEN MatchedNew(rows, out.bids) ELSE <<>>
           tbl == IF out.kind = "list" THEN SaveAll(rows, out.bids, seq + 1) ELSE rows
       IN  /\ rows' = tbl
           /\ seq' = seq + Len(new)
           /\ all_matched_bids' = all_matched_bids \o new
           /\ mlog' = Append(mlog, [crawler |-> mcrawler, kind |-> out.kind,
                                    saved |-> Range(UrlsOf(new))])
    /\ mcrawler' = NextCrawler(mcrawler, out.kind)
    /\ UNCHANGED <<mpc, msend, mrun, mpending>>

\* The loop is over.
MainCrawlEnd ==
    /\ mpc = "crawl"
    /\ mcrawler > NumCrawlers
    /\ mpc' = "notify"
    /\ UNCHANGED <<mcrawler, mlog, all_matched_bids, msend, rows, seq, mrun, mpending>>

\* The notification: with new records, notifier.send is called and the
\* records are marked only when it returns True.
MainNotify(success) ==
    /\ mpc = "notify"
    /\ mpc' = "done"
    /\ IF all_matched_bids = <<>>
       THEN UNCHANGED <<msend, rows>>
       ELSE /\ msend' = IF success THEN "ok" ELSE "fail"
            /\ rows' = IF success
                       THEN mark_notified(rows, [kind |-> "bids", items |-> all_matched_bids])
                       ELSE rows
    /\ UNCHANGED <<mcrawler, mlog, all_matched_bids, seq, mrun, mpending>>

\* The next call of run_once (the scheduler of main calls it again and
\* again): its locals start afresh, the database is the one the earlier run
\* left.
MainAgain ==
    /\ mpc = "done"
    /\ mrun < MaxRuns
    /\ mrun' = mrun + 1
    /\ mpending' = IF msend = "fail" THEN mpending \cup Range(UrlsOf(all_matched_bids))
                   ELSE mpending
    /\ mpc' = "crawl"
    /\ mcrawler' = 1
    /\ mlog' = <<>>
    /\ all_matched_bids' = <<>>
    /\ msend' = "none"
    /\ UNCHANGED <<rows, seq>>

(***************************************************************************)
(* SharedBrowserManager and the SeleniumCrawlers that use it               *)
(* (selenium_crawler.py).  Each crawler runs on a thread of its own; the   *)
(* class attributes _lock, _driver and _instance are shared, and a thread  *)
(* switch can fall between any two statements that touch them.             *)
(***************************************************************************)
NumSelenium == 2    \* SeleniumCrawlers, each on its own thread
MaxDrivers == 3     \* browser sessions launched in one behaviour
MaxShutdowns == 1   \* calls of SharedBrowserManager.close
MaxGets == 2        \* get_driver calls of one crawler

Selenium == 1..NumSelenium
NoDriver == 0       \* None, as a driver
NoLock == 0         \* None, as a lock

\* webdriver.Chrome either hands back a session or both launch routes fail.
LaunchOutcomes == {"ok", "fail"}

\* A session, as it was launched: by _create_driver ("shared") or by
\* _init_driver ("private").
Session(kind, c) == [kind |-> kind, by |-> c]

\* The session handle that a launch yields.
Launched(out) == IF out = "ok" THEN Len(made) + 1 ELSE NoDriver

\* `if cls._lock is None`, as get_driver tests it.
LockMissing(lock) == lock = NoLock

\* SeleniumCrawler.close's test before it quits self.driver.
ClosesOwn(d, instance) == d # NoDriver /\ ~instance

\* fetch, line 123-124: a crawler without a driver calls get_driver, which
\* reads cls._lock.  (With a driver in hand fetch touches no shared state.)
GetDriverEnter(c) ==
    /\ bpc[c] = "idle"
    /\ driver[c] = NoDriver
    /\ Cardinality({i \in DOMAIN got : got[i].caller = c}) < MaxGets
    /\ bpc' = [bpc EXCEPT ![c] = IF LockMissing(sbm_lock) THEN "mklock" ELSE "with"]
    /\ UNCHANGED <<sbm_lock, sbm_holder, sbm_driver, sbm_instance, driver,
                   with_lock, made, quits, got, cpc, shutdowns>>

\* cls._lock = threading.Lock(): a new lock object, named after its maker.
GetDriverMakeLock(c) ==
    /\ bpc[c] = "mklock"
    /\ sbm_lock' = c
    /\ bpc' = [bpc EXCEPT ![c] = "with"]
    /\ UNCHANGED <<sbm_holder, sbm_driver, sbm_instance, driver,
                   with_lock, made, quits, got, cpc, shutdowns>>

\* `with cls._lock:` evaluates the attribute ...
GetDriverWith(c) ==
    /\ bpc[c] = "with"
    /\ with_lock' = [with_lock EXCEPT ![c] = sbm_lock]
    /\ bpc' = [bpc EXCEPT ![c] = "acquire"]
    /\ UNCHANGED <<sbm_lock, sbm_holder, sbm_driver, sbm_instance, driver,
                   made, quits, got, cpc, shutdowns>>

\* ... and acquires the lock object it found, waiting while it is held.
GetDriverAcquire(c) ==
    /\ bpc[c] = "acquire"
    /\ sbm_holder[with_lock[c]] = 0
    /\ sbm_holder' = [sbm_holder EXCEPT ![with_lock[c]] = c]
    /\ bpc' = [bpc EXCEPT ![c] = "check"]
    /\ UNCHANGED <<sbm_lock, sbm_driver, sbm_instance, driver,
                   with_lock, made, quits, got, cpc, shutdowns>>

\* `if cls._driver is None`
GetDriverCheck(c) ==
    /\ bpc[c] = "check"
    /\ bpc' = [bpc EXCEPT ![c] = IF sbm_driver = NoDriver THEN "create" ELSE "ret"]
    /\ UNCHANGED <<sbm_lock, sbm_holder, sbm_driver, sbm_instance, driver,
                   with_lock, made, quits, got, cpc, shutdowns>>

\* cls._driver = cls._create_driver(timeout)
GetDriverCreate(c, out) ==
    /\ bpc[c] = "create"
    /\ out = "ok" => Len(made) < MaxDrivers
    /\ sbm_driver' = Launched(out)
    /\ made' = IF out = "ok" THEN Append(made, Session("shared", c)) ELSE made
    /\ bpc' = [bpc EXCEPT ![c] = "setinst"]
    /\ UNCHANGED <<sbm_lock, sbm_holder, sbm_instance, driver,
                   with_lock, quits, got, cpc, shutdowns>>

\* cls._instance = True, whether or not the launch gave a driver
GetDriverSetInstance(c) ==
    /\ bpc[c] = "setinst"
    /\ sbm_instance' = TRUE
    /\ bpc' = [bpc EXCEPT ![c] = "ret"]
    /\ UNCHANGED <<sbm_lock, sbm_holder, sbm_driver, driver,
                   with_lock, made, quits, got, cpc, shutdowns>>

\* `return cls._driver` leaves the with block; fetch keeps the handle, and
\* falls back to a browser of its own (_init_driver) when there is none.
GetDriverReturn(c, out) ==
    /\ bpc[c] = "ret"
    /\ (sbm_driver # NoDriver) => out = "fail"
    /\ out = "ok" => Len(made) < MaxDrivers
    /\ got' = Append(got, [caller |-> c, driver |-> sbm_driver])
    /\ sbm_holder' = [sbm_holder EXCEPT ![with_lock[c]] = 0]
    /\ driver' = [driver EXCEPT ![c] =
                    IF sbm_driver # NoDriver THEN sbm_driver ELSE Launched(out)]
    /\ made' = IF sbm_driver = NoDriver /\ out = "ok"
               THEN Append(made, Session("private", c)) ELSE made
    /\ with_lock' = [with_lock EXCEPT ![c] = NoLock]
    /\ bpc' = [bpc EXCEPT ![c] = "idle"]
    /\ UNCHANGED <<sbm_lock, sbm_driver, sbm_instance, quits, cpc, shutdowns>>

\* A quit of session d, with what the session was at that moment.
Quit(d, who) ==
    [driver |-> d, by |-> who, current |-> d = sbm_driver,
     dead |-> \E i \in DOMAIN quits : quits[i].driver = d]

\* SeleniumCrawler.close
CrawlerClose(c) ==
    /\ bpc[c] = "idle"
    /\ driver[c] # NoDriver
    /\ IF ClosesOwn(driver[c], sbm_instance)
       THEN /\ quits' = Append(quits, Quit(driver[c], "adapter"))
            /\ driver' = [driver EXCEPT ![c] = NoDriver]
       ELSE UNCHANGED <<quits, driver>>
    /\ UNCHANGED <<sbm_lock, sbm_holder, sbm_driver, sbm_instance, bpc,
                   with_lock, made, got, cpc, shutdowns>>

\* SharedBrowserManager.close, statement by statement: `if cls._driver:`
ManagerCloseEnter ==
    /\ cpc = "idle"
    /\ shutdowns < MaxShutdowns
    /\ shutdowns' = shutdowns + 1
    /\ cpc' = IF sbm_driver # NoDriver THEN "quit" ELSE "idle"
    /\ UNCHANGED <<sbm_lock, sbm_holder, sbm_driver, sbm_instance, bpc, driver,
                   with_lock, made, quits, got>>

\* cls._driver.quit(), any exception swallowed
ManagerCloseQuit ==
    /\ cpc = "quit"
    /\ quits' = IF sbm_driver # NoDriver
                THEN Append(quits, Quit(sbm_driver, "manager")) ELSE quits
    /\ cpc' = "clear_driver"
    /\ UNCHANGED <<sbm_lock, sbm_holder, sbm_driver, sbm_instance, bpc, driver,
                   with_lock, made, got, shutdowns>>

\* cls._driver = None
ManagerCloseDriver ==
    /\ cpc = "clear_driver"
    /\ sbm_driver' = NoDriver
    /\ cpc' = "clear_instance"
    /\ UNCHANGED <<sbm_lock, sbm_holder, sbm_instance, bpc, driver,
                   with_lock, made, quits, got, shutdowns>>

\* cls._instance = None
ManagerCloseInstance ==
    /\ cpc = "clear_instance"
    /\ sbm_instance' = FALSE
    /\ cpc' = "idle"
    /\ UNCHANGED <<sbm_lock, sbm_holder, sbm_driver, bpc, driver,
                   with_lock, made, quits, got, shutdowns>>

(***************************************************************************)
(* BaseCrawler.crawl, one call, statement by statement, over a url list of *)
(* any length from none.  The stop event is the host's, which may set and  *)
(* clear it at any moment of the call.                                     *)
(***************************************************************************)
MaxUrls == 2        \* longest list that get_list_urls() returns

\* get_list_urls(): the urls of the adapter, named by their position.
UrlLists == {[i \in 1..n |-> i] : n \in 0..MaxUrls}

\* What fetch and parse make of a url: no html, a page of the anti-crawler, a
\* page on which parse raises, a page without records, a page with a record.
UrlOutcomes == FetchOutcomes \cup {"empty"}

\* bids = self.parse(html), for a page on which parse does not raise.
Parsed(u, out) == IF out \in {"a", "b"} THEN <<PageBid(1, u, out)>> ELSE <<>>

\* `if html:` ... `if self._is_blocked(html):` ... `except Exception`: the
\* outcomes on which failed_count is incremented.
CountsAsFailed(out) == out \in {"none", "blocked", "raise"}

NoReturnYet == [how |-> "running", bids |-> <<>>]

\* return None / return all_bids
CrawlResult(how, bids) == [how |-> how, bids |-> IF how = "list" THEN bids ELSE <<>>]

\* One turn of `for url in urls`: break on a set stop event, otherwise
\* fetch, _is_blocked and parse of the url.
CrawlTurn(out) ==
    /\ upc = "loop"
    /\ uidx \in DOMAIN urls
    /\ IF StopSeen(stop_event)
       THEN /\ upc' = "after"
            /\ UNCHANGED <<uidx, ufailed, ubids, ulog>>
       ELSE /\ ulog' = Append(ulog, [url |-> urls[uidx], out |-> out])
            /\ ufailed' = IF CountsAsFailed(out) THEN ufailed + 1 ELSE ufailed
            /\ ubids' = IF CountsAsFailed(out) THEN ubids
                        ELSE ubids \o Parsed(urls[uidx], out)
            /\ uidx' = uidx + 1
            /\ UNCHANGED upc
    /\ UNCHANGED <<urls, uret, stop_event>>

\* The loop has no url left.
CrawlLoopEnds ==
    /\ upc = "loop"
    /\ uidx \notin DOMAIN urls
    /\ upc' = "after"
    /\ UNCHANGED <<urls, uidx, ufailed, ubids, ulog, uret, stop_event>>

\* The statements after the loop: None or all_bids.
CrawlReturns ==
    /\ upc = "after"
    /\ uret' = CrawlResult(HttpResult(ufailed, Len(urls)), ubids)
    /\ upc' = "done"
    /\ UNCHANGED <<urls, uidx, ufailed, ubids, ulog, stop_event>>

\* The host sets or clears the stop event while the call runs.
CrawlHostStop(v) ==
    /\ upc \in {"loop", "after"}
    /\ stop_event # v
    /\ stop_event' = v
    /\ UNCHANGED crawlVars

(***************************************************************************)
(* The specifications.                                                     *)
(***************************************************************************)
InitMatchIdle ==
    /\ matcher = [include |-> <<>>, exclude |-> <<>>, must |-> <<>>]
    /\ mtexts = <<<<>>, <<>>>>
    /\ mres = NoResult

InitDispIdle ==
    /\ dhost = "gui"
    /\ contacts = <<>>
    /\ chancfg = ChanCfg(FALSE, FALSE, FALSE, FALSE, FALSE, FALSE, FALSE)
    /\ dpc = "idle"
    /\ dpos = 1
    /\ dbids = <<>>
    /\ sent = <<>>

InitRoundIdle ==
    /\ rkinds = <<>>
    /\ rpc = "ended"
    /\ radapter = 1
    /\ rurl = 1
    /\ failed_count = 0
    /\ all_bids = <<>>
    /\ cres = "running"
    /\ new_count = 0
    /\ invoked = {}
    /\ fetched = {}
    /\ cuts = {}
    /\ stopped_at = {}
    /\ aborted_at = 0
    /\ saved = {}

InitHostIdle ==
    /\ stop_event = FALSE
    /\ is_running = FALSE
    /\ current_task_running = FALSE
    /\ next_run_time = FALSE
    /\ scheduler = FALSE
    /\ job = FALSE
    /\ recurring = FALSE
    /\ orphans = 0
    /\ tasks = [t \in Tasks |-> NoTask]
    /\ today_rounds = 0
    /\ last_round = NoRound
    /\ InitRoundIdle

InitGuardIdle ==
    /\ genabled = FALSE
    /\ gkey = FALSE
    /\ graise = FALSE
    /\ gpc = "idle"
    /\ gattempt = 0
    /\ gouts = <<>>
    /\ gsleeps = 0
    /\ gret = NoReturn

InitFetchIdle ==
    /\ fmax = 0
    /\ fpc = "done"
    /\ furl = 1
    /\ fattempt = 0
    /\ flog = <<>>
    /\ fwaits = 0
    /\ fresult = "running"

InitMainIdle ==
    /\ mpc = "done"
    /\ mcrawler = 1
    /\ mlog = <<>>
    /\ all_matched_bids = <<>>
    /\ msend = "none"
    /\ mrun = 1
    /\ mpending = {}

InitBrowserIdle ==
    /\ sbm_lock = NoLock
    /\ sbm_holder = [l \in Selenium |-> 0]
    /\ sbm_driver = NoDriver
    /\ sbm_instance = FALSE
    /\ bpc = [c \in Selenium |-> "idle"]
    /\ driver = [c \in Selenium |-> NoDriver]
    /\ with_lock = [c \in Selenium |-> NoLock]
    /\ cpc = "idle"
    /\ made = <<>>
    /\ quits = <<>>
    /\ got = <<>>
    /\ shutdowns = 0

InitCrawlIdle ==
    /\ urls = <<>>
    /\ upc = "idle"
    /\ uidx = 1
    /\ ufailed = 0
    /\ ubids = <<>>
    /\ ulog = <<>>
    /\ uret = NoReturnYet

InitExtraIdle ==
    InitGuardIdle /\ InitFetchIdle /\ InitMainIdle /\ InitBrowserIdle /\ InitCrawlIdle

InitStore ==
    InitStoreVars /\ InitMatchIdle /\ InitDispIdle /\ InitHostIdle /\ InitExtraIdle

\* One caller: every call returns before the next begins.
NextStoreSeq ==
    \/ \E b \in Bids, n \in BOOLEAN :
          SaveCall(1, b, n) /\ UNCHANGED <<matchVars, dispVars, hostVars, extraVars>>
    \/ \E a \in MarkArgs : MarkNotified(1, a) /\ UNCHANGED <<matchVars, dispVars, hostVars, extraVars>>
    \/ ClearAll(1) /\ UNCHANGED <<matchVars, dispVars, hostVars, extraVars>>
    \/ Tick /\ UNCHANGED <<matchVars, dispVars, hostVars, extraVars>>

SpecStoreSeq == InitStore /\ [][NextStoreSeq]_vars

\* Several threads, each on its own connection to the one database file.
NextStore ==
    \/ \E t \in Callers, b \in Bids, n \in BOOLEAN :
          SaveExists(t, b, n) /\ UNCHANGED <<matchVars, dispVars, hostVars, extraVars>>
    \/ \E t \in Callers : SaveInsert(t) /\ UNCHANGED <<matchVars, dispVars, hostVars, extraVars>>
    \/ \E t \in Callers, a \in MarkArgs :
          MarkNotified(t, a) /\ UNCHANGED <<matchVars, dispVars, hostVars, extraVars>>
    \/ \E t \in Callers : ClearAll(t) /\ UNCHANGED <<matchVars, dispVars, hostVars, extraVars>>
    \/ Tick /\ UNCHANGED <<matchVars, dispVars, hostVars, extraVars>>

SpecStore == InitStore /\ [][NextStore]_vars

InitMatch ==
    /\ InitExtraIdle
    /\ InitStoreVars
    /\ InitDispIdle
    /\ InitHostIdle
    /\ \E inc \in KwLists, exc \in KwLists, must \in KwLists :
          matcher = KeywordMatcherInit(inc, exc, must)
    /\ mtexts \in TextPairs
    /\ mres = NoResult

NextMatch == Match /\ UNCHANGED <<storeVars, dispVars, hostVars, extraVars>>

SpecMatch == InitMatch /\ [][NextMatch]_vars

\* The tables a dispatch may find: one unnotified record; two; one unnotified
\* record and one notified by an earlier dispatch.
TableOne == InsertRow(<<>>, 1, 0, BidInfo("u1", "a"), FALSE)
TableTwo == InsertRow(TableOne, 2, 0, BidInfo("u2", "b"), FALSE)
TableOld == UpdateNotified(TableTwo, Md5("u1"))

InitDispatch ==
    /\ InitExtraIdle
    /\ InitMatchIdle
    /\ InitHostIdle
    /\ rows \in {TableOne, TableTwo, TableOld}
    /\ seq = Len(rows)
    /\ now = 0
    /\ spc = [t \in Callers |-> "idle"]
    /\ sarg = [t \in Callers |-> [bid |-> NoBid, notified |-> FALSE]]
    /\ hist = <<>>
    /\ dhost \in Hosts
    /\ contacts \in UNION {[1..n -> ContactKinds] : n \in 0..NumContacts}
    /\ chancfg \in ChanCfgs
    /\ dpc = "idle"
    /\ dpos = 1
    /\ dbids = <<>>
    /\ sent = <<>>

dispFrame == <<seq, now, spc, sarg, hist, matchVars, hostVars, extraVars>>

NextDispatch ==
    \/ DispatchBegin /\ UNCHANGED dispFrame
    \/ \E out \in Outcomes : SendNext(out) /\ UNCHANGED dispFrame
    \/ DispatchEnd /\ UNCHANGED dispFrame

SpecDispatch == InitDispatch /\ [][NextDispatch]_vars

InitServerVars ==
    /\ is_running = FALSE
    /\ current_task_running = FALSE
    /\ next_run_time = FALSE
    /\ scheduler = FALSE
    /\ job = FALSE
    /\ recurring = FALSE
    /\ orphans = 0
    /\ tasks = [t \in Tasks |-> NoTask]
    /\ today_rounds = 0
    /\ last_round = NoRound

InitServer ==
    /\ InitExtraIdle
    /\ InitStoreVars
    /\ InitMatchIdle
    /\ InitDispIdle
    /\ stop_event = FALSE
    /\ InitServerVars
    /\ InitRoundIdle

serverFrame == <<storeVars, matchVars, dispVars, roundVars, extraVars>>

NextServer ==
    \/ start_monitor /\ UNCHANGED serverFrame
    \/ stop_monitor /\ UNCHANGED serverFrame
    \/ run_once /\ UNCHANGED serverFrame
    \/ JobFires /\ UNCHANGED serverFrame
    \/ OrphanFires /\ UNCHANGED serverFrame
    \/ \E has_interval \in BOOLEAN : update_config(has_interval) /\ UNCHANGED serverFrame
    \/ \E t \in Tasks : TaskBegin(t) /\ UNCHANGED serverFrame
    \/ \E t \in Tasks, out \in RoundOutcomes, newday \in BOOLEAN :
          RoundReturns(t, out, newday) /\ UNCHANGED serverFrame

SpecServer == InitServer /\ [][NextServer]_vars

InitRound ==
    /\ InitExtraIdle
    /\ InitMatchIdle
    /\ InitDispIdle
    /\ InitServerVars
    /\ rows \in {<<>>, TableOne}
    /\ seq = Len(rows)
    /\ now = 0
    /\ spc = [t \in Callers |-> "idle"]
    /\ sarg = [t \in Callers |-> [bid |-> NoBid, notified |-> FALSE]]
    /\ hist = <<>>
    /\ stop_event = FALSE
    /\ rkinds \in [Adapters -> CrawlerKinds]
    /\ rpc = "boundary"
    /\ radapter = 1
    /\ rurl = 1
    /\ failed_count = 0
    /\ all_bids = <<>>
    /\ cres = "running"
    /\ new_count = 0
    /\ invoked = {}
    /\ fetched = {}
    /\ cuts = {}
    /\ stopped_at = {}
    /\ aborted_at = 0
    /\ saved = {}

roundFrame == <<now, spc, sarg, hist, matchVars, dispVars, serverVars, extraVars>>

NextRound ==
    \/ SetStop /\ UNCHANGED roundFrame
    \/ ClearStop /\ UNCHANGED roundFrame
    \/ AdapterBoundary /\ UNCHANGED roundFrame
    \/ \E out \in FetchOutcomes : CrawlUrl(out) /\ UNCHANGED roundFrame
    \/ \E out \in FetchOutcomes : CrawlSelenium(out) /\ UNCHANGED roundFrame
    \/ AdapterReturn /\ UNCHANGED roundFrame

SpecRound == InitRound /\ [][NextRound]_vars

InitGuard ==
    /\ InitStoreVars
    /\ InitMatchIdle
    /\ InitDispIdle
    /\ InitHostIdle
    /\ genabled \in BOOLEAN
    /\ gkey \in BOOLEAN
    /\ graise \in BOOLEAN
    /\ gpc = "idle"
    /\ gattempt = 0
    /\ gouts = <<>>
    /\ gsleeps = 0
    /\ gret = NoReturn
    /\ InitFetchIdle
    /\ InitMainIdle
    /\ InitBrowserIdle
    /\ InitCrawlIdle

guardFrame ==
    <<storeVars, matchVars, dispVars, hostVars, fetchVars, mainVars, browserVars,
      crawlVars>>

NextGuard ==
    \/ GuardBegin /\ UNCHANGED guardFrame
    \/ \E out \in PostOutcomes : GuardPost(out) /\ UNCHANGED guardFrame

SpecGuard == InitGuard /\ [][NextGuard]_vars

InitFetch ==
    /\ InitStoreVars
    /\ InitMatchIdle
    /\ InitDispIdle
    /\ InitServerVars
    /\ InitRoundIdle
    /\ InitGuardIdle
    /\ stop_event = FALSE
    /\ fmax \in 0..MaxRetriesCfg
    /\ fpc = "check"
    /\ furl = 1
    /\ fattempt = 0
    /\ flog = <<>>
    /\ fwaits = 0
    /\ fresult = "running"
    /\ InitMainIdle
    /\ InitBrowserIdle
    /\ InitCrawlIdle

fetchFrame ==
    <<storeVars, matchVars, dispVars, serverVars, roundVars, guardVars, mainVars,
      browserVars, crawlVars>>

NextFetch ==
    \/ FetchSetStop /\ UNCHANGED fetchFrame
    \/ FetchCrawlCheck /\ UNCHANGED fetchFrame
    \/ \E ans \in Answers : FetchGet(ans) /\ UNCHANGED fetchFrame

SpecFetch == InitFetch /\ [][NextFetch]_vars

InitMain ==
    /\ InitMatchIdle
    /\ InitDispIdle
    /\ InitHostIdle
    /\ InitGuardIdle
    /\ InitFetchIdle
    /\ rows \in {<<>>, TableOne}
    /\ seq = Len(rows)
    /\ now = 0
    /\ spc = [t \in Callers |-> "idle"]
    /\ sarg = [t \in Callers |-> [bid |-> NoBid, notified |-> FALSE]]
    /\ hist = <<>>
    /\ mpc = "crawl"
    /\ mcrawler = 1
    /\ mlog = <<>>
    /\ all_matched_bids = <<>>
    /\ msend = "none"
    /\ mrun = 1
    /\ mpending = {}
    /\ InitBrowserIdle
    /\ InitCrawlIdle

mainFrame ==
    <<now, spc, sarg, hist, matchVars, dispVars, hostVars, guardVars, fetchVars,
      browserVars, crawlVars>>

NextMain ==
    \/ \E out \in CrawlOutcomes : MainCrawl(out) /\ UNCHANGED mainFrame
    \/ MainCrawlEnd /\ UNCHANGED mainFrame
    \/ \E success \in BOOLEAN : MainNotify(success) /\ UNCHANGED mainFrame
    \/ MainAgain /\ UNCHANGED mainFrame

SpecMain == InitMain /\ [][NextMain]_vars

InitBrowser ==
    /\ InitStoreVars
    /\ InitMatchIdle
    /\ InitDispIdle
    /\ InitHostIdle
    /\ InitGuardIdle
    /\ InitFetchIdle
    /\ InitMainIdle
    /\ InitBrowserIdle
    /\ InitCrawlIdle

browserFrame ==
    <<storeVars, matchVars, dispVars, hostVars, guardVars, fetchVars, mainVars,
      crawlVars>>

NextBrowser ==
    \/ \E c \in Selenium : GetDriverEnter(c) /\ UNCHANGED browserFrame
    \/ \E c \in Selenium : GetDriverMakeLock(c) /\ UNCHANGED browserFrame
    \/ \E c \in Selenium : GetDriverWith(c) /\ UNCHANGED browserFrame
    \/ \E c \in Selenium : GetDriverAcquire(c) /\ UNCHANGED browserFrame
    \/ \E c \in Selenium : GetDriverCheck(c) /\ UNCHANGED browserFrame
    \/ \E c \in Selenium, out \in LaunchOutcomes :
            GetDriverCreate(c, out) /\ UNCHANGED browserFrame
    \/ \E c \in Selenium : GetDriverSetInstance(c) /\ UNCHANGED browserFrame
    \/ \E c \in Selenium, out \in LaunchOutcomes :
            GetDriverReturn(c, out) /\ UNCHANGED browserFrame
    \/ \E c \in Selenium : CrawlerClose(c) /\ UNCHANGED browserFrame
    \/ ManagerCloseEnter /\ UNCHANGED browserFrame
    \/ ManagerCloseQuit /\ UNCHANGED browserFrame
    \/ ManagerCloseDriver /\ UNCHANGED browserFrame
    \/ ManagerCloseInstance /\ UNCHANGED browserFrame

SpecBrowser == InitBrowser /\ [][NextBrowser]_vars

InitCrawl ==
    /\ InitStoreVars
    /\ InitMatchIdle
    /\ InitDispIdle
    /\ InitServerVars
    /\ InitRoundIdle
    /\ InitGuardIdle
    /\ InitFetchIdle
    /\ InitMainIdle
    /\ InitBrowserIdle
    /\ stop_event \in BOOLEAN
    /\ urls \in UrlLists
    /\ upc = "loop"
    /\ uidx = 1
    /\ ufailed = 0
    /\ ubids = <<>>
    /\ ulog = <<>>
    /\ uret = NoReturnYet

crawlFrame ==
    <<storeVars, matchVars, dispVars, serverVars, roundVars, guardVars, fetchVars,
      mainVars, browserVars>>

NextCrawl ==
    \/ \E out \in UrlOutcomes : CrawlTurn(out) /\ UNCHANGED crawlFrame
    \/ CrawlLoopEnds /\ UNCHANGED crawlFrame
    \/ CrawlReturns /\ UNCHANGED crawlFrame
    \/ \E v \in BOOLEAN : CrawlHostStop(v) /\ UNCHANGED crawlFrame

SpecCrawl == InitCrawl /\ [][NextCrawl]_vars

----
(***************************************************************************)
(* C1: two saves in a row of records with the same url, by one caller,     *)
(* leave exactly one stored row of that url, and the second returns false. *)
(***************************************************************************)
RowsOfUrl(u) == {i \in DOMAIN rows : rows[i].url = u}

C1_SecondSaveRejected ==
    \A i \in 1..(Len(hist) - 1) :
        (/\ hist[i].op = "save"
         /\ hist[i + 1].op = "save"
         /\ hist[i].bid.url = hist[i + 1].bid.url)
        => /\ hist[i + 1].ret = "false"
           /\ (i + 1 = Len(hist) => Cardinality(RowsOfUrl(hist[i].bid.url)) = 1)

C1_Witness ==
    /\ Len(hist) >= 2
    /\ hist[Len(hist) - 1].op = "save"
    /\ hist[Len(hist)].op = "save"
    /\ hist[Len(hist) - 1].ret = "true"
    /\ hist[Len(hist) - 1].bid.url = hist[Len(hist)].bid.url
    /\ hist[Len(hist) - 1].bid.title # hist[Len(hist)].bid.title

(***************************************************************************)
(* C2: under concurrent save calls no call fails: each returns true or     *)
(* false, at most one row is stored per unique_id, and of the calls for a  *)
(* unique_id that no clear_all separates exactly one returns true.         *)
(***************************************************************************)
C2_SaveAtomic ==
    /\ \A i \in DOMAIN hist : hist[i].op = "save" => hist[i].ret \in {"true", "false"}
    /\ \A u \in Urls : Cardinality(RowsOfUrl(u)) <= 1
    /\ \A i \in DOMAIN hist, j \in DOMAIN hist :
          (/\ i < j
           /\ hist[i].op = "save" /\ hist[j].op = "save"
           /\ hist[i].bid.url = hist[j].bid.url
           /\ hist[i].ret = "true"
           /\ \A k \in (i + 1)..(j - 1) : hist[k].op # "clear_all")
          => hist[j].ret = "false"


(***************************************************************************)
(* Containment regardless of case, stated without lower(): two characters  *)
(* are the same letter when their capitals agree.                          *)
(***************************************************************************)
Capital(c) == CASE c = "a" -> "A" [] c = "b" -> "B" [] OTHER -> c

ContainsCI(kw, text) ==
    \E i \in 0..(Len(text) - Len(kw)) :
        \A j \in 1..Len(kw) : Capital(text[i + j]) = Capital(kw[j])

HasAnyCI(kws, text) == \E i \in DOMAIN kws : ContainsCI(kws[i], text)

(***************************************************************************)
(* C3: at most one monitoring round is executing at any time; a start, a   *)
(* run-once or a scheduled trigger that comes while a round is in progress *)
(* never leads to two rounds running together.                             *)
(***************************************************************************)
C3_SingleFlight == Cardinality(RoundsInFlight) <= 1

(***************************************************************************)
(* C4: whenever a round is in flight, current_task_running is true; no     *)
(* other event clears the flag before that round has ended.                *)
(***************************************************************************)
C4_FlagWhileInFlight == RoundsInFlight # {} => current_task_running

(***************************************************************************)
(* C5, as stated: if the stop event is set before adapter k is reached,    *)
(* the round processes adapters 1..k-1 in full (every list url fetched),   *)
(* keeps the records stored from them and invokes none of adapters k..n.   *)
(* Adapter k is the one the round stands before when the event is set, or  *)
(* the one after the adapter whose crawl is under way.                     *)
(***************************************************************************)
StoredUrls == {rows[i].url : i \in DOMAIN rows}

FetchedOf(a) == {f.url : f \in {g \in fetched : g.adapter = a}}

FullyProcessed(a) == a \in invoked /\ FetchedOf(a) = ListUrls(rkinds[a])

NextAdapterAt(p) == IF p.phase = "boundary" THEN p.adapter ELSE p.adapter + 1

C5_StopBeforeAdapterK ==
    rpc = "ended" =>
        \A p \in stopped_at :
            /\ \A a \in 1..(NextAdapterAt(p) - 1) : FullyProcessed(a)
            /\ \A a \in NextAdapterAt(p)..NumAdapters : a \notin invoked
            /\ saved \subseteq StoredUrls

(***************************************************************************)
(* C5, amended: when the round finds the stop event set at its check       *)
(* before adapter k, it ends there: adapters 1..k-1 were invoked and none  *)
(* of adapters k..n is.  An invoked adapter fetches its list urls in order *)
(* until it finds the event set at the check before a url, and fetches     *)
(* none from then on, so an adapter may be processed in part.  The records *)
(* the round stored are kept.                                              *)
(***************************************************************************)
Returned(a) == a \in invoked /\ (a < radapter \/ RoundPhase = "returned")

C5_StopAtBoundaries ==
    /\ aborted_at # 0 => rpc = "ended" /\ invoked = 1..(aborted_at - 1)
    /\ \A f \in fetched : ~f.stop
    /\ \A a \in Adapters :
          Returned(a) =>
              /\ \E m \in 0..Cardinality(ListUrls(rkinds[a])) : FetchedOf(a) = 1..m
              /\ FetchedOf(a) # ListUrls(rkinds[a]) => a \in cuts
    /\ saved \subseteq StoredUrls
    /\ new_count = Cardinality(saved)

C5_Witness ==
    /\ rpc = "ended"
    /\ aborted_at = 3
    /\ [adapter |-> 2, phase |-> "crawl"] \in stopped_at
    /\ rkinds[2] = "http"
    /\ FetchedOf(2) = {1}
    /\ 2 \in cuts
    /\ saved # {}

(***************************************************************************)
(* C6: when the fan-out over contacts and channels is through, every       *)
(* record that was dispatched is marked notified in the store, whatever    *)
(* the outcomes of the sends were.                                         *)
(***************************************************************************)
NotifiedUrls == {rows[i].url : i \in {j \in DOMAIN rows : rows[j].notified = 1}}

C6_AllDispatchedMarked ==
    dpc = "done" => Range(UrlsOf(Dispatched(dhost, dbids))) \subseteq NotifiedUrls

(***************************************************************************)
(* C7: a record goes from unnotified to notified only after a send was     *)
(* attempted for it to a configured channel of an enabled contact.  The    *)
(* records of unnotified_bids were unnotified when the dispatch began.     *)
(***************************************************************************)
AttemptedUrls == UNION {sent[k].urls : k \in DOMAIN sent}

C7_MarkedOnlyAfterAttempt ==
    (Range(UrlsOf(dbids)) \cap NotifiedUrls) \subseteq AttemptedUrls

(***************************************************************************)
(* C8: a send that returned failure or raised does not keep any later      *)
(* (contact, channel) pair of an enabled contact from being attempted:     *)
(* the loops have passed or will pass every such pair, and when the        *)
(* dispatch is done each of them is in the log of attempts.                *)
(***************************************************************************)
AttemptedPlaces == {sent[k].place : k \in DOMAIN sent}

C8_FailureIsolated ==
    \A j \in DOMAIN sent :
        sent[j].out \in {"fail", "raise"} =>
            \A k \in SendPlaces(dhost, chancfg, contacts, sent[j].place + 1) :
                /\ k < dpos => k \in AttemptedPlaces
                /\ dpc = "done" => k \in AttemptedPlaces

C8_Witness ==
    /\ dpc = "done"
    /\ Len(sent) >= 3
    /\ sent[1].out = "raise"
    /\ sent[2].out = "fail"
    /\ sent[Len(sent)].contact # sent[1].contact

(***************************************************************************)
(* C9: a text that contains an exclude keyword, in any case, is reported   *)
(* by match as not matched, with no matched keywords and excluded_by set,  *)
(* whatever include and must-contain keywords it holds; and match_any      *)
(* reports not matched as soon as one of its fields holds an exclude       *)
(* keyword.                                                                *)
(***************************************************************************)
C9_ExclusionOverrides ==
    mres.done =>
        /\ HasAnyCI(matcher.exclude, mtexts[1]) =>
              /\ ~mres.one.matched
              /\ mres.one.matched_keywords = <<>>
              /\ mres.one.excluded_by.some
              /\ ContainsCI(mres.one.excluded_by.kw, mtexts[1])
        /\ (\E f \in DOMAIN mtexts : HasAnyCI(matcher.exclude, mtexts[f])) =>
              /\ ~mres.any.matched
              /\ mres.any.matched_keywords = {}

\* The title holds an include and a must-contain keyword and, in capitals, an
\* exclude keyword; the content holds none.
C9_Witness ==
    /\ mres.done
    /\ HasAnyCI(matcher.exclude, mtexts[1])
    /\ ~ \E i \in DOMAIN matcher.exclude : Contains(matcher.exclude[i], mtexts[1])
    /\ HasAnyCI(matcher.include, mtexts[1])
    /\ HasAnyCI(matcher.must, mtexts[1])
    /\ ~HasAnyCI(matcher.exclude, mtexts[2])
    /\ ~mres.any.matched

(***************************************************************************)
(* C10: with must-contain keywords configured, a text that holds none of   *)
(* them is not matched by match, even when it holds include keywords.      *)
(***************************************************************************)
C10_MustContainGate ==
    (mres.done /\ matcher.must # <<>> /\ ~HasAnyCI(matcher.must, mtexts[1]))
        => ~mres.one.matched

\* No exclusion is in play: the text holds an include keyword and is rejected
\* by the gate alone.
C10_Witness ==
    /\ mres.done
    /\ matcher.must # <<>>
    /\ ~HasAnyCI(matcher.must, mtexts[1])
    /\ HasAnyCI(matcher.include, mtexts[1])
    /\ ~HasAnyCI(matcher.exclude, mtexts[1])
    /\ ~mres.one.matched

(***************************************************************************)
(* C11: for a text that holds no exclude keyword and passes the            *)
(* must-contain gate, match reports matched exactly when an include        *)
(* keyword is in the text.                                                 *)
(***************************************************************************)
PassesGate(m, text) == m.must = <<>> \/ HasAnyCI(m.must, text)

C11_MatchedIffInclude ==
    (mres.done /\ ~HasAnyCI(matcher.exclude, mtexts[1]) /\ PassesGate(matcher, mtexts[1]))
        => (mres.one.matched <=> HasAnyCI(matcher.include, mtexts[1]))

(***************************************************************************)
(* C12: with the guard enabled and configured and raise_on_error false, a  *)
(* classification whose requests all meet a connection error or a timeout  *)
(* makes exactly three requests, does not raise, and returns relevant with *)
(* a reason that holds the retry count.                                    *)
(***************************************************************************)
AllTransient == gouts # <<>> /\ \A i \in DOMAIN gouts : gouts[i] \in Transient

C12_FailOpenAfterThree ==
    (gpc = "done" /\ genabled /\ gkey /\ ~graise /\ AllTransient)
        => /\ Len(gouts) = 3
           /\ gret = Return(TRUE, NetworkReason(3))
           /\ gsleeps = 2

C12_Witness ==
    /\ gpc = "done"
    /\ genabled /\ gkey /\ ~graise
    /\ gouts = <<"ConnectionError", "Timeout", "ConnectionError">>
    /\ gret.how = "return" /\ gret.relevant

(***************************************************************************)
(* C13: a GET of fetch that is answered with 401 or 403 is the last GET of *)
(* that fetch: fetch returns no html and makes no further attempt for the  *)
(* url.                                                                    *)
(***************************************************************************)
C13_DeniedStops ==
    \A i \in DOMAIN flog :
        (flog[i].ans.exc = "HTTPError" /\ flog[i].ans.status \in {401, 403}) =>
            /\ i = Len(flog)
            /\ fpc # "get"
            /\ fresult = "None"

(***************************************************************************)
(* C14: fetch makes at most max_retries GETs for one url; after a          *)
(* transient failure (timeout, connection error, TLS failure, 5xx) it      *)
(* waits and tries again while attempts remain; after max_retries          *)
(* transient failures it returns no html, with no wait after the last.     *)
(***************************************************************************)
TransientAnswers ==
    {Answer(e, 0) : e \in {"Timeout", "ConnectionError", "SSLError"}}
    \cup {Answer("HTTPError", 500)}

AllTransientSoFar == \A i \in DOMAIN flog : flog[i].ans \in TransientAnswers

C14_AttemptsCapped ==
    /\ Len(flog) <= fmax
    /\ (fpc = "get" /\ AllTransientSoFar) =>
          /\ Len(flog) < fmax
          /\ fwaits = Len(flog)
    /\ (fpc # "get" /\ fresult # "running" /\ AllTransientSoFar) =>
          /\ Len(flog) = fmax
          /\ fresult = "None"
          /\ fmax > 0 => fwaits = fmax - 1

C14_Witness ==
    /\ fmax = 3
    /\ fpc # "get"
    /\ Len(flog) = 3
    /\ flog[1].ans = Answer("Timeout", 0)
    /\ flog[2].ans = Answer("HTTPError", 500)
    /\ flog[3].ans = Answer("SSLError", 0)
    /\ fresult = "None"
    /\ fwaits = 2

(***************************************************************************)
(* C15: once the stop event is set, no GET is made for any url of the      *)
(* adapter being crawled, neither a first attempt nor a retry.             *)
(***************************************************************************)
C15_NoGetAfterStop == \A i \in DOMAIN flog : ~flog[i].stop

(***************************************************************************)
(* C16: a crawler whose crawl reports failure (None) or raises contributes *)
(* no record, and every crawler after it is still invoked: when the loop   *)
(* is over, each crawler has been called once, in order.                   *)
(***************************************************************************)
C16_BrokenSourceIsolated ==
    /\ \A i \in DOMAIN mlog :
          /\ mlog[i].crawler = i
          /\ mlog[i].kind \in {"None", "raise"} => mlog[i].saved = {}
    /\ mpc = "crawl" => Len(mlog) = mcrawler - 1
    /\ mpc \in {"notify", "done"} /\ mlog # <<>> => Len(mlog) = NumCrawlers

C16_Witness ==
    /\ mpc = "done"
    /\ Len(mlog) = NumCrawlers
    /\ mlog[1].kind = "None"
    /\ mlog[2].kind = "raise"
    /\ mlog[3].kind = "list" /\ mlog[3].saved # {}

(***************************************************************************)
(* C17: the shared browser session is a singleton.  As long as             *)
(* SharedBrowserManager.close has not been called, concurrent get_driver   *)
(* calls launch at most one shared session, and every call that returns a  *)
(* session returns the same one.                                           *)
(***************************************************************************)
SharedMade == {d \in DOMAIN made : made[d].kind = "shared"}

C17_Singleton ==
    shutdowns = 0 =>
        /\ Cardinality(SharedMade) <= 1
        /\ \A i, j \in DOMAIN got :
               (got[i].driver # NoDriver /\ got[j].driver # NoDriver)
                   => got[i].driver = got[j].driver

(***************************************************************************)
(* C18: no SeleniumCrawler quits the shared browser session: whenever a    *)
(* crawler's close() calls quit(), the session it quits is not the one     *)
(* held in SharedBrowserManager._driver at that moment.                    *)
(***************************************************************************)
C18_AdapterNeverQuitsShared ==
    \A i \in DOMAIN quits : quits[i].by = "adapter" => ~quits[i].current

(***************************************************************************)
(* C19: an interruption clears scheduling.  From stop() until the next     *)
(* start() or run-once, that is while the stop event is set, no next-round *)
(* job is pending in any scheduler and no next run time is held, a round   *)
(* that returns schedules nothing, and no round begins.                    *)
(***************************************************************************)
NothingScheduled == ~job /\ orphans = 0 /\ ~next_run_time

NoRoundBegins == \A t \in Tasks : tasks'[t].pc = "round" => tasks[t].pc = "round"

C19_StopClearsScheduling ==
    /\ [](stop_event => NothingScheduled)
    /\ [][stop_event => NoRoundBegins]_vars

(***************************************************************************)
(* C20: while the monitor is started and not stopped (its scheduler is     *)
(* alive), every round that returns uninterrupted leaves exactly one next  *)
(* round scheduled, at completion time plus the interval: one pending      *)
(* one-shot job and no other, the next run time held, and the monitor      *)
(* still running, so that the job's firing begins the next round.          *)
(***************************************************************************)
Completes(t) == tasks[t].pc = "round" /\ tasks'[t].pc = "free"

OneNextRound ==
    job' /\ ~recurring' /\ orphans' = 0 /\ next_run_time' /\ is_running'

C20_NextRoundScheduled ==
    [][\A t \in Tasks : (Completes(t) /\ scheduler /\ ~stop_event) => OneNextRound]_vars

(***************************************************************************)
(* C21: a round that ends having stored at least one new record, whether   *)
(* it went over all adapters or was stopped early, is followed by the      *)
(* notification dispatch.                                                  *)
(***************************************************************************)
C21_NewRecordsDispatched ==
    (last_round.ended /\ last_round.new) => last_round.dispatched

(***************************************************************************)
(* C22: both read paths return the records most recently inserted first:   *)
(* get_unnotified gives the unnotified rows, and every result of get_all   *)
(* gives all rows, in the reverse of the order of insertion.               *)
(***************************************************************************)
Reverse(s) == [i \in DOMAIN s |-> s[Len(s) + 1 - i]]

MostRecentFirst(tbl) == Reverse([i \in DOMAIN tbl |-> RowBid(tbl[i])])

C22_RecencyOrder ==
    /\ get_unnotified(rows) = MostRecentFirst(SelectSeq(rows, LAMBDA r : r.notified = 0))
    /\ \A res \in get_all(rows) : res = MostRecentFirst(rows)

(***************************************************************************)
(* C23: run-once bypasses recurring scheduling.  When the round of a       *)
(* run-once that was issued with the monitor not running returns, the      *)
(* monitor is not running, no next run time is held and no next round is   *)
(* scheduled.                                                              *)
(***************************************************************************)
C23_RunOnceLeavesIdle ==
    [][\A t \in Tasks :
          (Completes(t) /\ Restores(t))
              => (~is_running' /\ ~next_run_time' /\ ~job')]_vars

(***************************************************************************)
(* C24: in BidMonitor.run_once, records whose notification send failed     *)
(* stay unnotified, and a later run sends them again: when a run is over,  *)
(* every record left pending by an earlier run was handed to               *)
(* notifier.send in this run.                                              *)
(***************************************************************************)
SentUrls == IF msend = "none" THEN {} ELSE Range(UrlsOf(all_matched_bids))

StaysUnnotified ==
    \A i \in DOMAIN rows :
        (rows[i].url \in SentUrls /\ msend = "fail") => rows[i].notified = 0

C24_FailedSendResent ==
    mpc = "done" => (StaysUnnotified /\ mpending \subseteq SentUrls)

(***************************************************************************)
(* C25: cancellation is never lost.  A round that was in flight when stop  *)
(* was called finds the stop event set for as long as it runs.             *)
(***************************************************************************)
C25_StopStaysSet ==
    \A t \in Tasks : (tasks[t].pc = "round" /\ tasks[t].cancelled) => stop_event


(***************************************************************************)
(* C26: from a successful start until stop, is_running stays true: while   *)
(* start's scheduler is held the monitor is running, and no round that     *)
(* completes meanwhile clears next_run_time.                               *)
(***************************************************************************)
KeepsNextRunTime == next_run_time => next_run_time'

C26_StartedStaysRunning ==
    /\ [](scheduler => is_running)
    /\ [][\A t \in Tasks : (Completes(t) /\ scheduler) => KeepsNextRunTime]_vars


(***************************************************************************)
(* C27: the notified flag is monotonic.  Under concurrent callers, a step  *)
(* either deletes every row (clear_all) or leaves every row whose flag is  *)
(* 1 in the table with its flag still 1; and marking the same argument a   *)
(* second time gives the table the first marking gave.                     *)
(***************************************************************************)
FlagKept ==
    \A i \in DOMAIN rows :
        rows[i].notified = 1 =>
            \E j \in DOMAIN rows' :
                rows'[j].id = rows[i].id /\ rows'[j].notified = 1

MarkIdempotent ==
    \A a \in MarkArgs :
        mark_notified(mark_notified(rows, a), a) = mark_notified(rows, a)

C27_NotifiedMonotonic ==
    /\ []MarkIdempotent
    /\ [][rows' = <<>> \/ FlagKept]_vars

\* A row is flagged after two markings and a later save of its url.
C27_Witness ==
    /\ \E i \in DOMAIN rows : rows[i].notified = 1
    /\ \E j, k, l \in DOMAIN hist :
          /\ j < k /\ k < l
          /\ hist[j].op = "mark_notified" /\ hist[k].op = "mark_notified"
          /\ hist[l].op = "save" /\ hist[l].ret = "false"
          /\ \E i \in DOMAIN rows :
                rows[i].notified = 1 /\ rows[i].url = hist[l].bid.url


(***************************************************************************)
(* C28: a save of a record whose unique_id is already stored leaves the    *)
(* table as it was, whatever the record's other fields and the notified    *)
(* argument.                                                               *)
(***************************************************************************)
SaveEnds ==
    /\ Len(hist') = Len(hist) + 1
    /\ hist'[Len(hist')].op = "save"

Stored(bid) == \E i \in DOMAIN rows : rows[i].unique_id = Md5(bid.url)

C28_DuplicateSaveChangesNothing ==
    [][(SaveEnds /\ Stored(hist'[Len(hist')].bid)) => rows' = rows]_vars

\* A url was stored and marked, and a later save of it with other fields
\* returned false; the row holds the fields it was stored with.
C28_Witness ==
    \E i \in DOMAIN rows, k, l \in DOMAIN hist :
        /\ k < l
        /\ hist[k].op = "save" /\ hist[k].ret = "true"
        /\ hist[l].op = "save" /\ hist[l].ret = "false"
        /\ rows[i].url = hist[k].bid.url /\ rows[i].title = hist[k].bid.title
        /\ hist[l].bid.url = rows[i].url /\ hist[l].bid.title # rows[i].title
        /\ rows[i].notified = 1

(***************************************************************************)
(* C29: a browser that a SeleniumCrawler launched for itself is quit by    *)
(* that crawler's close(): in every state where close() can be called on   *)
(* a crawler holding a private browser, close()'s test lets the quit       *)
(* happen.                                                                 *)
(***************************************************************************)
HoldsPrivate(c) ==
    /\ bpc[c] = "idle"
    /\ driver[c] # NoDriver
    /\ made[driver[c]].kind = "private"

C29_PrivateBrowserQuit ==
    \A c \in Selenium : HoldsPrivate(c) => ClosesOwn(driver[c], sbm_instance)


(***************************************************************************)
(* C30: BaseCrawler.crawl returns None exactly when the url list is not    *)
(* empty and every url of it was attempted and counted as failed; in every *)
(* other case, an empty list and a crawl cut short by the stop event       *)
(* included, it returns the records parsed so far.                         *)
(***************************************************************************)
AllAttemptedAndFailed ==
    /\ urls # <<>>
    /\ Len(ulog) = Len(urls)
    /\ \A i \in DOMAIN ulog : ulog[i].out \in {"none", "blocked", "raise"}

RECURSIVE ParsedSoFar(_)
ParsedSoFar(log) ==
    IF log = <<>> THEN <<>>
    ELSE IF Head(log).out \in {"a", "b"}
    THEN <<PageBid(1, Head(log).url, Head(log).out)>> \o ParsedSoFar(Tail(log))
    ELSE ParsedSoFar(Tail(log))

C30_NoneIffAllFailed ==
    upc = "done" =>
        /\ uret.how = "None" <=> AllAttemptedAndFailed
        /\ uret.how # "None" => (uret.how = "list" /\ uret.bids = ParsedSoFar(ulog))

\* Every url of a list of several was attempted and failed, and crawl
\* returned None.
C30_Witness ==
    /\ upc = "done"
    /\ Len(urls) > 1
    /\ AllAttemptedAndFailed
    /\ uret.how = "None"

====
